---- MODULE Spec2Model ----
(***************************************************************************)
(* Lavalink client of PancyBotGo (pkg/lavalink/lavalink.go): node          *)
(* connection lifecycle, REST control plane, per-guild players, queue      *)
(* management and progress tickers.  Every critical section (one lock      *)
(* acquisition) and every blocking network call is one step of the task    *)
(* that runs it.                                                           *)
(***************************************************************************)
EXTENDS Integers, Sequences, FiniteSets, TLC

\* ---- bounds of the model ----
MaxQueue == 2
MaxConns == 2
MaxTickers == 2
MaxPlayers == 3
MaxChains == 1
MaxDials == 2
MaxSyncs == 2
MaxCodeObjs == 4
MaxOps == 3
MaxGrants == 2
MaxCacheSize == 2

\* ---- program constants ----
MinVolume == 0
MaxVolume == 1000
DefaultVolume == 100

\* ---- finite domains ----
NodeIds == {1, 2}
Callers == {1, 2, 3}
ReaderSlots == {1, 2}
ReaderId(n, s) == 10 * n + s
Readers == {ReaderId(n, s) : n \in NodeIds, s \in ReaderSlots}
TaskIds == Callers \cup Readers
NodeOf(r) == r \div 10
Guilds == {"g1"}
NoGuild == "none"
Tracks == {"A", "B", "C"}
NoTrack == "nil"
VolumeInputs == {-10, 50, 5000}
SessionIds == {"s1", "s2"}
BotUser == "bot"
UserIds == {BotUser, "u1"}
VoiceSessions == {"v1", "v2"}
Tokens == {"t1", "t2"}
Endpoints == {"e1"}
ObjIds == 1..MaxPlayers
ConnIds == 1..MaxConns
TickerIds == 1..MaxTickers

\* database package
CodeIds == {"c1"}
CodeTypes == {"user", "guild"}
DbCallers == {1, 2}
MainTask == 3
SyncTasks == {3 + s : s \in 1..MaxSyncs}
DbTaskIds == DbCallers \cup {MainTask} \cup SyncTasks
Redeemers == {"u1", "u2"}
PremiumGuild == "pg"
CodeObjIds == 1..MaxCodeObjs
OpIds == 1..MaxOps

\* the cache of a DataManager
CacheKeys == {"k1", "k2", "k3"}
CacheTasks == {1, 2}
ElemIds == 1..(MaxCacheSize + 3)

\* lock discipline
Mutexes == {"c.mu", "player.Mu", "node.mu"}
LockTasks == {1, 2}

VARIABLES
    nodes,            \* c.nodes: the configured nodes, in order
    node,             \* per node: connected, reconnecting, sessionId, conn
    open,             \* per node: the websocket handles that are open
    pendingConnect,   \* per node: goroutines about to run connect()
    dialing,          \* per node: connect() calls inside dialer.Dial
    readyOnConn,      \* per node: a ready frame with a session arrived on n.conn
    readySeen,        \* per node: a ready frame with a session was ever processed
    players,          \* c.players: guild -> Player object (0: no entry)
    heap,             \* the Player objects
    progressTickers,  \* c.progressTickers: guild -> ticker (0: no entry)
    ticker,           \* the tickers and their goroutines
    voiceStates,      \* s.State: guild -> voice session id of the bot ("": none)
    voiceServer,      \* per guild: the last voice-server event received
    voiceSent,        \* per guild: the voice patches sent to a node so far
    playerNode,       \* per guild: the node that got the first PATCH of its player
    task,             \* callers and read loops: position and locals
    database,         \* the Database instance: connection state and write queue
    mongo,            \* the MongoDB server and its collections
    premiumDM,        \* GlobalPremiumCodeDM: its collection and cache
    codeObjs,         \* the PremiumCode objects the cache and the callers point to
    dbtask,           \* database callers, main and sync goroutines: position and locals
    grants,           \* the redemptions that returned without error, in order
    issued,           \* the codes generated so far
    lockTask,         \* lock discipline: the operation a goroutine runs and its position
    mutex,            \* lock discipline: writer (0: none) and readers of each lock
    dataManager,      \* a DataManager: its cache map, its LRU list and their elements
    dmTask            \* the callers of the DataManager: position and locals

lavalinkVars == <<nodes, node, open, pendingConnect, dialing, readyOnConn, readySeen,
                  players, heap, progressTickers, ticker, voiceStates, voiceServer,
                  voiceSent, playerNode, task>>

dbVars == <<database, mongo, premiumDM, codeObjs, dbtask, grants, issued>>

lockVars == <<lockTask, mutex>>

cacheVars == <<dataManager, dmTask>>

vars == <<lavalinkVars, dbVars, lockVars, cacheVars>>

voiceVars == <<voiceStates, voiceServer, voiceSent>>

nodeVars == <<node, open, pendingConnect, dialing, readyOnConn, readySeen>>

Min(S) == CHOOSE x \in S : \A y \in S : x <= y

\* ---- values ----
NewNode == [connected |-> FALSE, reconnecting |-> FALSE, sessionId |-> "", conn |-> 0]

NewPlayer(g) ==
    [GuildID |-> g, CurrentTrack |-> NoTrack, Queue |-> <<>>, Volume |-> DefaultVolume,
     IsPlaying |-> FALSE, IsPaused |-> FALSE, Position |-> 0]

FreePlayer == NewPlayer(NoGuild)

FreeTicker == [g |-> NoGuild, stopped |-> FALSE, pc |-> "free", obj |-> 0]

\* the partial JSON object of a PATCH: "absent" (-1 for volume) is a missing key
NoVoice == [sessionId |-> "absent", token |-> "absent", endpoint |-> "absent"]
NoPatch == [track |-> "absent", paused |-> "absent", volume |-> -1, voice |-> NoVoice]
TrackPatch(t) == [NoPatch EXCEPT !.track = t]
PausedPatch(b) == [NoPatch EXCEPT !.paused = IF b THEN "true" ELSE "false"]
VolumePatch(v) == [NoPatch EXCEPT !.volume = v]
\* faulty variant: the session id of the voice state is left out
VoicePatch_NoSession(sid, tok, ep) ==
    [NoPatch EXCEPT !.voice = [sessionId |-> "absent", token |-> tok, endpoint |-> ep]]

VoicePatch(sid, tok, ep) ==
    [NoPatch EXCEPT !.voice = [sessionId |-> sid, token |-> tok, endpoint |-> ep]]

BlankTask ==
    [op |-> "none", pc |-> "idle", g |-> NoGuild, track |-> NoTrack, arg |-> 0,
     num |-> 0, flag |-> FALSE, obj |-> 0, i |-> 0, sid |-> "", fresh |-> FALSE,
     patch |-> NoPatch, calls |-> <<>>, ret |-> "none", h |-> 0,
     uid |-> "", tok |-> "", ep |-> ""]

OffReader == [BlankTask EXCEPT !.pc = "off"]

\* ---- SetVolume's clamp ----
\* faulty variant: the upper limit is not applied
ClampVolume_NoUpper(v) == IF v < MinVolume THEN MinVolume ELSE v

ClampVolume(v) ==
    LET a == IF v < MinVolume THEN MinVolume ELSE v
    IN  IF a > MaxVolume THEN MaxVolume ELSE a

\* ---- what the critical sections do to a Player ----
\* faulty variant: the track is put in front of the queue
Enqueue_Front(q, t) == <<t>> \o q

\* Play on a playing player: player.Queue = append(player.Queue, track)
Enqueue(q, t) == Append(q, t)

\* faulty variant: the player is marked as not playing until the next track starts
PopQueue_MarksIdle(p) ==
    [p EXCEPT !.CurrentTrack = Head(p.Queue), !.Queue = Tail(p.Queue), !.IsPlaying = FALSE]

\* faulty variant: the head is not removed from the queue
PopQueue_KeepsQueue(p) == [p EXCEPT !.CurrentTrack = Head(p.Queue)]

\* Skip and handleTrackEnd with a queue: the head becomes the current track
PopQueue(p) == [p EXCEPT !.CurrentTrack = Head(p.Queue), !.Queue = Tail(p.Queue)]

\* faulty variant: the player is not marked as playing
StartPlaying_NotMarked(p, t) == [p EXCEPT !.CurrentTrack = t]

\* Play on a player that is not playing
StartPlaying(p, t) == [p EXCEPT !.CurrentTrack = t, !.IsPlaying = TRUE]

\* faulty variant: the queue is not cleared
Stopped_KeepsQueue(p) == [p EXCEPT !.IsPlaying = FALSE, !.CurrentTrack = NoTrack]

\* Stop
Stopped(p) == [p EXCEPT !.IsPlaying = FALSE, !.CurrentTrack = NoTrack, !.Queue = <<>>]

\* faulty variant: the current track is not cleared
QueueFinished_KeepsTrack(p) == [p EXCEPT !.IsPlaying = FALSE]

\* handleTrackEnd with an empty queue
QueueFinished(p) == [p EXCEPT !.IsPlaying = FALSE, !.CurrentTrack = NoTrack]

\* ---- the Player objects ----
\* objects that a registry entry, a task or a ticker goroutine still holds
Refs ==
    {players[g] : g \in Guilds} \cup {task[k].obj : k \in TaskIds}
        \cup {ticker[i].obj : i \in TickerIds}

\* the heap after a step: objects nothing refers to any more are collected
SetHeap(H) == heap' = [o \in ObjIds |-> IF o \in Refs' THEN H[o] ELSE FreePlayer]

FreeObjs == {o \in ObjIds : heap[o].GuildID = NoGuild}

\* GetPlayer: the existing Player of the guild, or a fresh one that is inserted
CanGetPlayer(g) == players[g] # 0 \/ FreeObjs # {}
\* faulty variant: a fresh Player is inserted although the guild has one
GetPlayerObj_AlwaysNew(g) == IF FreeObjs # {} THEN Min(FreeObjs) ELSE players[g]

GetPlayerObj(g) == IF players[g] # 0 THEN players[g] ELSE Min(FreeObjs)
GetPlayerPlayers(g) == [players EXCEPT ![g] = GetPlayerObj(g)]
GetPlayerHeap(g) ==
    IF players[g] # 0 THEN heap ELSE [heap EXCEPT ![Min(FreeObjs)] = NewPlayer(g)]

\* ---- the progress tickers ----
\* a stopped ticker never fires again: its goroutine, if it waits for the next
\* tick, stays blocked for good and is dropped from the state
StopOne(tk, i) ==
    IF tk[i].pc = "wait" THEN [tk EXCEPT ![i] = FreeTicker]
    ELSE [tk EXCEPT ![i].stopped = TRUE]

\* stopProgressUpdates(g): stop and unregister the ticker registered for g
StopProgressTicker(g) ==
    IF progressTickers[g] # 0 THEN StopOne(ticker, progressTickers[g]) ELSE ticker
StopProgressMap(g) == [progressTickers EXCEPT ![g] = 0]

FreeTickers == {i \in TickerIds : ticker[i].pc = "free"}

\* ---- tasks ----
Begin(k, op, g) == [BlankTask EXCEPT !.op = op, !.g = g, !.h = task[k].h]

\* the handler is over: its arguments, its requests and its result stay readable
\* until the task moves on (Return)
Finish(k, ret) ==
    [task[k] EXCEPT !.pc = "done", !.ret = ret, !.obj = 0, !.i = 0,
                    !.sid = "", !.fresh = FALSE]

Busy(k) == task[k].pc \notin {"idle", "reading", "off", "disc_sleep"}
BusyTicker(i) == ticker[i].pc \notin {"free", "wait"}

\* Play calls that got past GetPlayer and may still append to a queue
PendingPlays == Cardinality({k \in TaskIds : task[k].pc \in {"play_join", "play_lock"}})
QueueRoom == \A o \in ObjIds : Len(heap[o].Queue) + PendingPlays < MaxQueue

\* ---- database package: values ----
\* a premium code document (models.PremiumCode); NoDoc: no document
NoDoc == [exists |-> FALSE, Type |-> "none", IsClaimed |-> FALSE, ClaimedBy |-> "none"]
NewCode(ty) == [exists |-> TRUE, Type |-> ty, IsClaimed |-> FALSE, ClaimedBy |-> "none"]

\* NewDatabase(); db: d.db # nil; reconnectTicker: the ticker and its
\* goroutine exist; closed: stopReconnect is closed; nextOp numbers the operations ever queued
NewDatabase ==
    [IsConnected |-> FALSE, db |-> FALSE, reconnectTicker |-> FALSE,
     closed |-> FALSE, writeQueue |-> <<>>, nextOp |-> 1]

\* the MongoDB server: reachable or not, the premium-code collection, the
\* owners of a premium record, and the queued operations applied by a sync
EmptyMongo ==
    [up |-> TRUE, codes |-> [c \in CodeIds |-> NoDoc], premium |-> {}, applied |-> {}]

\* GlobalPremiumCodeDM before InitGlobalDataManagers
NoDataManager == [ready |-> FALSE, collection |-> FALSE, cache |-> [c \in CodeIds |-> 0]]

BlankDbTask ==
    [op |-> "none", pc |-> "idle", code |-> "none", by |-> "none", to |-> "none",
     obj |-> 0, data |-> NoDoc, ret |-> "none", operations |-> <<>>, failedOps |-> <<>>]
OffSync == [BlankDbTask EXCEPT !.pc = "off"]

QueuedOperation(id, coll, key, operation, data) ==
    [id |-> id, CollectionName |-> coll, key |-> key, Operation |-> operation, Data |-> data]

\* NewLavalinkClient with the node configurations ns
\* NewDataManager: an empty map and an empty list (key: the cacheEntry.key of
\* each list element)
NewDataManager ==
    [cache |-> [c \in CacheKeys |-> 0], cacheList |-> <<>>,
     key |-> [e \in ElemIds |-> "none"]]

BlankCacheTask == [pc |-> "idle", key |-> "none", elem |-> 0]

InitWith(ns) ==
    /\ nodes = ns
    /\ node = [n \in NodeIds |-> NewNode]
    /\ open = [n \in NodeIds |-> {}]
    /\ pendingConnect = [n \in NodeIds |-> 0]
    /\ dialing = [n \in NodeIds |-> 0]
    /\ readyOnConn = [n \in NodeIds |-> FALSE]
    /\ readySeen = [n \in NodeIds |-> FALSE]
    /\ players = [g \in Guilds |-> 0]
    /\ heap = [o \in ObjIds |-> FreePlayer]
    /\ progressTickers = [g \in Guilds |-> 0]
    /\ ticker = [i \in TickerIds |-> FreeTicker]
    /\ voiceStates = [g \in Guilds |-> ""]
    /\ voiceServer = [g \in Guilds |-> NoVoice]
    /\ voiceSent = [g \in Guilds |-> {}]
    /\ playerNode = [g \in Guilds |-> 0]
    /\ task = [k \in TaskIds |-> IF k \in Callers THEN BlankTask ELSE OffReader]
    /\ database = NewDatabase
    /\ mongo = EmptyMongo
    /\ premiumDM = NoDataManager
    /\ codeObjs = [o \in CodeObjIds |-> NoDoc]
    /\ dbtask = [k \in DbTaskIds |->
                    IF k = MainTask THEN [BlankDbTask EXCEPT !.pc = "start"]
                    ELSE IF k \in SyncTasks THEN OffSync ELSE BlankDbTask]
    /\ grants = <<>>
    /\ issued = {}
    /\ lockTask = [k \in LockTasks |-> [op |-> "none", i |-> 0]]
    /\ mutex = [m \in Mutexes |-> [w |-> 0, r |-> {}]]
    /\ dataManager = NewDataManager
    /\ dmTask = [k \in CacheTasks |-> BlankCacheTask]

\* the bot is configured with one node
Init == InitWith(<<1>>)

\* a client with two nodes
InitTwo == InitWith(<<1, 2>>)

\* faulty variant: the session id is not checked
RestReady_ConnectedOnly(n) == node[n].connected

\* the precondition of updatePlayer and destroyPlayer
RestReady(n) == node[n].connected /\ node[n].sessionId # ""

\* ---- the REST loop shared by Play, Pause, Stop, Skip, SetVolume, handleTrackEnd
\* and voiceServerUpdate ----
\* One iteration of "for _, node := range c.nodes": node.connected is read and,
\* when it is set, updatePlayer reads sessionId and connected.  Both reads are
\* taken in one step: a node that changes between them gives an outcome this
\* step also has at the later moment.
RestPick(k) ==
    /\ task[k].pc = "rest"
    /\ task' = [task EXCEPT ![k] =
          IF task[k].i > Len(nodes)
          THEN Finish(k, IF task[k].op \in {"play", "TrackEndEvent", "voiceServerUpdate"}
                        THEN "nil" ELSE "err")
          ELSE LET n == nodes[task[k].i]
               IN  IF ~node[n].connected \/ ~RestReady(n)
                   THEN [task[k] EXCEPT !.i = @ + 1]
                   ELSE [task[k] EXCEPT !.pc = "rest_http", !.sid = node[n].sessionId,
                                        !.fresh = readyOnConn[n]]]
    /\ UNCHANGED <<cacheVars, lockVars, dbVars, nodes, voiceVars, playerNode, nodeVars, players, heap, progressTickers, ticker>>

\* faulty variant: a Play whose request failed takes its local update back
UpdatePlayerHttp_RollsBack(k, ok) ==
    /\ task[k].pc = "rest_http"
    /\ LET call == [node |-> nodes[task[k].i], method |-> "PATCH", g |-> task[k].g,
                    sid |-> task[k].sid, fresh |-> task[k].fresh,
                    patch |-> task[k].patch, ok |-> ok]
           t1 == [task[k] EXCEPT !.calls = Append(@, call)]
       IN  task' = [task EXCEPT ![k] =
             IF ok THEN [Finish(k, "nil") EXCEPT !.calls = t1.calls]
             ELSE [t1 EXCEPT !.pc = "rest", !.i = @ + 1, !.sid = "", !.fresh = FALSE]]
    /\ heap' = IF ~ok /\ task[k].op = "play"
               THEN [heap EXCEPT ![task[k].obj].IsPlaying = FALSE,
                                 ![task[k].obj].CurrentTrack = NoTrack]
               ELSE heap
    /\ UNCHANGED <<cacheVars, lockVars, dbVars, nodes, voiceVars, playerNode, nodeVars, players, progressTickers, ticker>>

\* faulty variant: no other node is tried after a request that failed
UpdatePlayerHttp_NoNextNode(k, ok) ==
    /\ task[k].pc = "rest_http"
    /\ LET call == [node |-> nodes[task[k].i], method |-> "PATCH", g |-> task[k].g,
                    sid |-> task[k].sid, fresh |-> task[k].fresh,
                    patch |-> task[k].patch, ok |-> ok]
       IN  task' = [task EXCEPT ![k] =
             [Finish(k, IF ok THEN "nil" ELSE "err") EXCEPT
                 !.calls = Append(task[k].calls, call)]]
    /\ playerNode' =
          IF playerNode[task[k].g] = 0
          THEN [playerNode EXCEPT ![task[k].g] = nodes[task[k].i]] ELSE playerNode
    /\ UNCHANGED <<cacheVars, lockVars, dbVars, nodes, voiceVars, nodeVars, players, heap, progressTickers, ticker>>

\* updatePlayer sends the PATCH; ok is a 200/204 answer
UpdatePlayerHttp(k, ok) ==
    /\ task[k].pc = "rest_http"
    /\ LET call == [node |-> nodes[task[k].i], method |-> "PATCH", g |-> task[k].g,
                    sid |-> task[k].sid, fresh |-> task[k].fresh,
                    patch |-> task[k].patch, ok |-> ok]
           t1 == [task[k] EXCEPT !.calls = Append(@, call)]
       IN  task' = [task EXCEPT ![k] =
             IF ok THEN [Finish(k, "nil") EXCEPT !.calls = t1.calls]
             ELSE [t1 EXCEPT !.pc = "rest", !.i = @ + 1, !.sid = "", !.fresh = FALSE]]
    /\ voiceSent' =
          IF task[k].patch.voice = NoVoice THEN voiceSent
          ELSE [voiceSent EXCEPT ![task[k].g] = @ \cup {task[k].patch.voice}]
    /\ playerNode' =
          IF playerNode[task[k].g] = 0
          THEN [playerNode EXCEPT ![task[k].g] = nodes[task[k].i]] ELSE playerNode
    /\ UNCHANGED <<cacheVars, lockVars, dbVars, nodes, voiceStates, voiceServer, nodeVars, players, heap,
                   progressTickers, ticker>>

\* ---- Play ----
BeginPlay(k, g, t) ==
    /\ task[k].pc = "idle"
    /\ CanGetPlayer(g)
    /\ QueueRoom
    /\ task' = [task EXCEPT ![k] =
          [Begin(k, "play", g) EXCEPT !.track = t, !.obj = GetPlayerObj(g),
                                      !.pc = "play_join"]]
    /\ players' = GetPlayerPlayers(g)
    /\ UNCHANGED <<cacheVars, lockVars, dbVars, nodes, voiceVars, playerNode, nodeVars, progressTickers, ticker>>
    /\ SetHeap(GetPlayerHeap(g))

\* faulty variant: the track is started before the voice channel is joined
PlayJoin_StartsFirst(k, ok) ==
    /\ task[k].pc = "play_join"
    /\ task' = [task EXCEPT ![k] =
          IF ok THEN [task[k] EXCEPT !.pc = "play_lock"] ELSE Finish(k, "err")]
    /\ UNCHANGED <<cacheVars, lockVars, dbVars, nodes, voiceVars, playerNode, nodeVars, players, progressTickers, ticker>>
    /\ SetHeap([heap EXCEPT ![task[k].obj] =
                   IF ok \/ @.IsPlaying THEN @ ELSE StartPlaying(@, task[k].track)])

\* ChannelVoiceJoinManual succeeds or fails (the channel ids stored before it
\* are written only, never read, and are left out of the Player record)
PlayJoin(k, ok) ==
    /\ task[k].pc = "play_join"
    /\ task' = [task EXCEPT ![k] =
          IF ok THEN [task[k] EXCEPT !.pc = "play_lock"] ELSE Finish(k, "err")]
    /\ UNCHANGED <<cacheVars, lockVars, dbVars, nodes, voiceVars, playerNode, nodeVars, players, progressTickers, ticker>>
    /\ SetHeap(heap)

PlayLock(k) ==
    /\ task[k].pc = "play_lock"
    /\ LET o == task[k].obj
       IN  IF heap[o].IsPlaying
           THEN /\ task' = [task EXCEPT ![k] = Finish(k, "nil")]
                /\ UNCHANGED <<cacheVars, lockVars, dbVars, nodes, voiceVars, playerNode, nodeVars, players, progressTickers, ticker>>
                /\ SetHeap([heap EXCEPT ![o].Queue = Enqueue(@, task[k].track)])
           ELSE /\ task' = [task EXCEPT ![k] =
                      [task[k] EXCEPT !.pc = "rest", !.i = 1,
                                      !.patch = TrackPatch(task[k].track)]]
                /\ UNCHANGED <<cacheVars, lockVars, dbVars, nodes, voiceVars, playerNode, nodeVars, players, progressTickers, ticker>>
                /\ SetHeap([heap EXCEPT ![o] = StartPlaying(@, task[k].track)])

\* ---- Pause ----
BeginPause(k, g, b) ==
    /\ task[k].pc = "idle"
    /\ CanGetPlayer(g)
    /\ task' = [task EXCEPT ![k] =
          [Begin(k, "pause", g) EXCEPT !.flag = b, !.obj = GetPlayerObj(g),
                                       !.pc = "pause_lock"]]
    /\ players' = GetPlayerPlayers(g)
    /\ UNCHANGED <<cacheVars, lockVars, dbVars, nodes, voiceVars, playerNode, nodeVars, progressTickers, ticker>>
    /\ SetHeap(GetPlayerHeap(g))

PauseLock(k) ==
    /\ task[k].pc = "pause_lock"
    /\ task' = [task EXCEPT ![k] =
          [task[k] EXCEPT !.pc = "rest", !.i = 1, !.patch = PausedPatch(task[k].flag)]]
    /\ UNCHANGED <<cacheVars, lockVars, dbVars, nodes, voiceVars, playerNode, nodeVars, players, progressTickers, ticker>>
    /\ SetHeap([heap EXCEPT ![task[k].obj].IsPaused = task[k].flag])

\* ---- Stop ----
BeginStop(k, g) ==
    /\ task[k].pc = "idle"
    /\ CanGetPlayer(g)
    /\ task' = [task EXCEPT ![k] =
          [Begin(k, "stop", g) EXCEPT !.obj = GetPlayerObj(g), !.pc = "stop_lock"]]
    /\ players' = GetPlayerPlayers(g)
    /\ UNCHANGED <<cacheVars, lockVars, dbVars, nodes, voiceVars, playerNode, nodeVars, progressTickers, ticker>>
    /\ SetHeap(GetPlayerHeap(g))

\* Stop as called by Skip: its GetPlayer
StopGet(k) ==
    /\ task[k].pc = "stop_get"
    /\ CanGetPlayer(task[k].g)
    /\ task' = [task EXCEPT ![k] =
          [task[k] EXCEPT !.obj = GetPlayerObj(task[k].g), !.pc = "stop_lock"]]
    /\ players' = GetPlayerPlayers(task[k].g)
    /\ UNCHANGED <<cacheVars, lockVars, dbVars, nodes, voiceVars, playerNode, nodeVars, progressTickers, ticker>>
    /\ SetHeap(GetPlayerHeap(task[k].g))

StopLock(k) ==
    /\ task[k].pc = "stop_lock"
    /\ task' = [task EXCEPT ![k] = [task[k] EXCEPT !.pc = "stop_ticker"]]
    /\ UNCHANGED <<cacheVars, lockVars, dbVars, nodes, voiceVars, playerNode, nodeVars, players, progressTickers, ticker>>
    /\ SetHeap([heap EXCEPT ![task[k].obj] = Stopped(@)])

StopTicker(k) ==
    /\ task[k].pc = "stop_ticker"
    /\ task' = [task EXCEPT ![k] =
          [task[k] EXCEPT !.pc = "rest", !.i = 1, !.patch = TrackPatch(NoTrack)]]
    /\ ticker' = StopProgressTicker(task[k].g)
    /\ progressTickers' = StopProgressMap(task[k].g)
    /\ UNCHANGED <<cacheVars, lockVars, dbVars, nodes, voiceVars, playerNode, nodeVars, players>>
    /\ SetHeap(heap)

\* ---- Skip ----
\* faulty variant: Skip returns nil without calling Stop
SkipEmptyQueue_Returns(t) == [t EXCEPT !.pc = "done", !.ret = "nil", !.obj = 0]

\* Skip on an empty queue: return c.Stop(guildID)
SkipEmptyQueue(t) == [t EXCEPT !.pc = "stop_get", !.obj = 0]

BeginSkip(k, g) ==
    /\ task[k].pc = "idle"
    /\ CanGetPlayer(g)
    /\ task' = [task EXCEPT ![k] =
          [Begin(k, "skip", g) EXCEPT !.obj = GetPlayerObj(g), !.pc = "skip_lock"]]
    /\ players' = GetPlayerPlayers(g)
    /\ UNCHANGED <<cacheVars, lockVars, dbVars, nodes, voiceVars, playerNode, nodeVars, progressTickers, ticker>>
    /\ SetHeap(GetPlayerHeap(g))

\* faulty variant: the head is read in one critical section and removed in
\* the next one
SkipLock_TwoSections(k) ==
    /\ task[k].pc = "skip_lock"
    /\ LET o == task[k].obj
       IN  IF Len(heap[o].Queue) = 0
           THEN /\ task' = [task EXCEPT ![k] = SkipEmptyQueue(task[k])]
                /\ UNCHANGED <<cacheVars, lockVars, dbVars, nodes, voiceVars, playerNode, nodeVars, players, progressTickers, ticker>>
                /\ SetHeap(heap)
           ELSE IF task[k].track = NoTrack
           THEN /\ task' = [task EXCEPT ![k].track = Head(heap[o].Queue)]
                /\ UNCHANGED <<cacheVars, lockVars, dbVars, nodes, voiceVars, playerNode, nodeVars, players, progressTickers, ticker>>
                /\ SetHeap(heap)
           ELSE /\ task' = [task EXCEPT ![k] =
                      [task[k] EXCEPT !.pc = "rest", !.i = 1,
                                      !.patch = TrackPatch(task[k].track)]]
                /\ UNCHANGED <<cacheVars, lockVars, dbVars, nodes, voiceVars, playerNode, nodeVars, players, progressTickers, ticker>>
                /\ SetHeap([heap EXCEPT ![o].CurrentTrack = task[k].track,
                                        ![o].Queue = Tail(@)])

SkipLock(k) ==
    /\ task[k].pc = "skip_lock"
    /\ LET o == task[k].obj
       IN  IF Len(heap[o].Queue) = 0
           THEN /\ task' = [task EXCEPT ![k] = SkipEmptyQueue(task[k])]
                /\ UNCHANGED <<cacheVars, lockVars, dbVars, nodes, voiceVars, playerNode, nodeVars, players, progressTickers, ticker>>
                /\ SetHeap(heap)
           ELSE /\ task' = [task EXCEPT ![k] =
                      [task[k] EXCEPT !.pc = "rest", !.i = 1,
                                      !.track = Head(heap[o].Queue),
                                      !.patch = TrackPatch(Head(heap[o].Queue))]]
                /\ UNCHANGED <<cacheVars, lockVars, dbVars, nodes, voiceVars, playerNode, nodeVars, players, progressTickers, ticker>>
                /\ SetHeap([heap EXCEPT ![o] = PopQueue(@)])

\* ---- SetVolume ----
BeginSetVolume(k, g, v) ==
    /\ task[k].pc = "idle"
    /\ CanGetPlayer(g)
    /\ task' = [task EXCEPT ![k] =
          [Begin(k, "setvolume", g) EXCEPT !.arg = v, !.num = ClampVolume(v),
                                           !.obj = GetPlayerObj(g), !.pc = "vol_lock"]]
    /\ players' = GetPlayerPlayers(g)
    /\ UNCHANGED <<cacheVars, lockVars, dbVars, nodes, voiceVars, playerNode, nodeVars, progressTickers, ticker>>
    /\ SetHeap(GetPlayerHeap(g))

VolumeLock(k) ==
    /\ task[k].pc = "vol_lock"
    /\ task' = [task EXCEPT ![k] =
          [task[k] EXCEPT !.pc = "rest", !.i = 1, !.patch = VolumePatch(task[k].num)]]
    /\ UNCHANGED <<cacheVars, lockVars, dbVars, nodes, voiceVars, playerNode, nodeVars, players, progressTickers, ticker>>
    /\ SetHeap([heap EXCEPT ![task[k].obj].Volume = task[k].num])

\* ---- DestroyPlayer ----
\* faulty variant: the player is removed only when a node is connected
BeginDestroy_NeedsNode(k, g) ==
    /\ task[k].pc = "idle"
    /\ task' = [task EXCEPT ![k] = [Begin(k, "destroy", g) EXCEPT !.pc = "destroy_ticker"]]
    /\ players' = IF \E n \in NodeIds : node[n].connected
                  THEN [players EXCEPT ![g] = 0] ELSE players
    /\ playerNode' = [playerNode EXCEPT ![g] = 0]
    /\ UNCHANGED <<cacheVars, lockVars, dbVars, nodes, voiceVars, nodeVars, progressTickers, ticker>>
    /\ SetHeap(heap)

BeginDestroy(k, g) ==
    /\ task[k].pc = "idle"
    /\ task' = [task EXCEPT ![k] = [Begin(k, "destroy", g) EXCEPT !.pc = "destroy_ticker"]]
    /\ players' = [players EXCEPT ![g] = 0]
    /\ playerNode' = [playerNode EXCEPT ![g] = 0]
    /\ UNCHANGED <<cacheVars, lockVars, dbVars, nodes, voiceVars, nodeVars, progressTickers, ticker>>
    /\ SetHeap(heap)

DestroyTicker(k) ==
    /\ task[k].pc = "destroy_ticker"
    /\ task' = [task EXCEPT ![k] = [task[k] EXCEPT !.pc = "destroy_pick", !.i = 1]]
    /\ ticker' = StopProgressTicker(task[k].g)
    /\ progressTickers' = StopProgressMap(task[k].g)
    /\ UNCHANGED <<cacheVars, lockVars, dbVars, nodes, voiceVars, playerNode, nodeVars, players>>
    /\ SetHeap(heap)

\* the first connected node gets the DELETE, whatever its outcome (break);
\* destroyPlayer refuses when the node has no session
DestroyPick(k) ==
    /\ task[k].pc = "destroy_pick"
    /\ task' = [task EXCEPT ![k] =
          IF task[k].i > Len(nodes) THEN Finish(k, "nil")
          ELSE LET n == nodes[task[k].i]
               IN  IF ~node[n].connected THEN [task[k] EXCEPT !.i = @ + 1]
                   ELSE IF ~RestReady(n) THEN Finish(k, "nil")
                   ELSE [task[k] EXCEPT !.pc = "destroy_http", !.sid = node[n].sessionId,
                                        !.fresh = readyOnConn[n]]]
    /\ UNCHANGED <<cacheVars, lockVars, dbVars, nodes, voiceVars, playerNode, nodeVars, players, heap, progressTickers, ticker>>

\* destroyPlayer sends the DELETE; its error is logged only
DestroyPlayerHttp(k, ok) ==
    /\ task[k].pc = "destroy_http"
    /\ LET call == [node |-> nodes[task[k].i], method |-> "DELETE", g |-> task[k].g,
                    sid |-> task[k].sid, fresh |-> task[k].fresh,
                    patch |-> NoPatch, ok |-> ok]
       IN  task' = [task EXCEPT ![k] =
             [Finish(k, "nil") EXCEPT !.calls = Append(task[k].calls, call)]]
    /\ UNCHANGED <<cacheVars, lockVars, dbVars, nodes, voiceVars, playerNode, nodeVars, players, heap, progressTickers, ticker>>

\* ---- Search ----
BeginSearch(k) ==
    /\ task[k].pc = "idle"
    /\ task' = [task EXCEPT ![k] =
          [Begin(k, "search", NoGuild) EXCEPT !.pc = "search_pick", !.i = 1]]
    /\ UNCHANGED <<cacheVars, lockVars, dbVars, nodes, voiceVars, playerNode, nodeVars, players, heap, progressTickers, ticker>>

SearchPick(k) ==
    /\ task[k].pc = "search_pick"
    /\ task' = [task EXCEPT ![k] =
          IF task[k].i > Len(nodes) THEN Finish(k, "err")
          ELSE IF node[nodes[task[k].i]].connected
               THEN [task[k] EXCEPT !.pc = "search_http"]
               ELSE [task[k] EXCEPT !.i = @ + 1]]
    /\ UNCHANGED <<cacheVars, lockVars, dbVars, nodes, voiceVars, playerNode, nodeVars, players, heap, progressTickers, ticker>>

\* the GET of /v4/loadtracks; ok is a 200 answer with a decodable body
SearchHttp(k, ok) ==
    /\ task[k].pc = "search_http"
    /\ LET call == [node |-> nodes[task[k].i], method |-> "GET", g |-> NoGuild,
                    sid |-> "", fresh |-> FALSE, patch |-> NoPatch, ok |-> ok]
           t1 == [task[k] EXCEPT !.calls = Append(@, call)]
       IN  task' = [task EXCEPT ![k] =
             IF ok THEN [Finish(k, "nil") EXCEPT !.calls = t1.calls]
             ELSE [t1 EXCEPT !.pc = "search_pick", !.i = @ + 1]]
    /\ UNCHANGED <<cacheVars, lockVars, dbVars, nodes, voiceVars, playerNode, nodeVars, players, heap, progressTickers, ticker>>

\* ---- the voice events of Discord ----
\* VoiceStateUpdate: the state cache of the session records the voice state of
\* the user (an update without a channel removes it) before the handlers run;
\* voiceStateUpdate itself returns for another user and only logs for the bot
BeginVoiceState(k, g, uid, joined, sid) ==
    /\ task[k].pc = "idle"
    /\ task' = [task EXCEPT ![k] =
          [Begin(k, "voiceStateUpdate", g) EXCEPT !.pc = "done", !.uid = uid,
                                                  !.flag = joined, !.sid = sid]]
    /\ voiceStates' =
          IF uid = BotUser THEN [voiceStates EXCEPT ![g] = IF joined THEN sid ELSE ""]
          ELSE voiceStates
    /\ UNCHANGED <<cacheVars, lockVars, dbVars, nodes, playerNode, voiceServer, voiceSent, nodeVars, players, heap,
                   progressTickers, ticker>>

\* VoiceServerUpdate: voiceServerUpdate looks the bot's voice state up in the
\* state cache and returns when there is none
BeginVoiceServer(k, g, tok, ep) ==
    /\ task[k].pc = "idle"
    /\ LET t == [Begin(k, "voiceServerUpdate", g) EXCEPT !.tok = tok, !.ep = ep]
       IN  task' = [task EXCEPT ![k] =
             IF voiceStates[g] = "" THEN [t EXCEPT !.pc = "done"]
             ELSE [t EXCEPT !.pc = "rest", !.i = 1,
                            !.patch = VoicePatch(voiceStates[g], tok, ep)]]
    /\ voiceServer' = [voiceServer EXCEPT ![g] =
          [sessionId |-> "absent", token |-> tok, endpoint |-> ep]]
    /\ UNCHANGED <<cacheVars, lockVars, dbVars, nodes, playerNode, voiceStates, voiceSent, nodeVars, players, heap,
                   progressTickers, ticker>>

\* ---- GetPlayer called by the command layer ----
CmdGetPlayer(k, g) ==
    /\ task[k].pc = "idle"
    /\ CanGetPlayer(g)
    /\ task' = [task EXCEPT ![k] = [Begin(k, "getplayer", g) EXCEPT !.pc = "done", !.ret = "nil"]]
    /\ players' = GetPlayerPlayers(g)
    /\ UNCHANGED <<cacheVars, lockVars, dbVars, nodes, voiceVars, playerNode, nodeVars, progressTickers, ticker>>
    /\ SetHeap(GetPlayerHeap(g))

\* ---- Connect and the connection tasks of a node ----
ReadersOf(n) == {r \in Readers : NodeOf(r) = n /\ task[r].pc # "off"}
Chains(n) == pendingConnect[n] + dialing[n] + Cardinality(ReadersOf(n))

\* a read loop that is bound to start a reconnection: it sleeps in
\* handleDisconnect, or the handle it reads from is closed
ReaderWillReconnect(n) ==
    \E r \in ReadersOf(n) : task[r].pc = "disc_sleep" \/ task[r].h \notin open[n]

\* Connect: go node.connect() for every node (limit bounds the connection
\* tasks of a node)
ConnectCall(k, limit) ==
    /\ task[k].pc = "idle"
    /\ \A j \in 1..Len(nodes) : Chains(nodes[j]) < limit
    /\ task' = [task EXCEPT ![k] = [Begin(k, "connect", NoGuild) EXCEPT !.pc = "done", !.ret = "nil"]]
    /\ pendingConnect' = [n \in NodeIds |->
          IF \E j \in 1..Len(nodes) : nodes[j] = n
          THEN pendingConnect[n] + 1 ELSE pendingConnect[n]]
    /\ UNCHANGED <<cacheVars, lockVars, dbVars, nodes, voiceVars, playerNode, node, open, dialing, readyOnConn, readySeen,
                   players, heap, progressTickers, ticker>>

CmdConnect(k) == ConnectCall(k, MaxChains)

\* faulty variant: connect() does not look at the in-flight flag
ConnectEnter_IgnoresInFlight(n) ==
    /\ pendingConnect[n] > 0
    /\ pendingConnect' = [pendingConnect EXCEPT ![n] = @ - 1]
    /\ IF node[n].connected
       THEN UNCHANGED <<node, dialing>>
       ELSE /\ node' = [node EXCEPT ![n].reconnecting = TRUE]
            /\ dialing' = [dialing EXCEPT ![n] = @ + 1]
    /\ UNCHANGED <<cacheVars, lockVars, dbVars, nodes, voiceVars, playerNode, open, readyOnConn, readySeen,
                   players, heap, progressTickers, ticker, task>>

\* connect(): returns when connected or a dial is in flight, else starts dialing
ConnectEnter(n) ==
    /\ pendingConnect[n] > 0
    /\ pendingConnect' = [pendingConnect EXCEPT ![n] = @ - 1]
    /\ IF node[n].connected \/ node[n].reconnecting
       THEN UNCHANGED <<node, dialing>>
       ELSE /\ node' = [node EXCEPT ![n].reconnecting = TRUE]
            /\ dialing' = [dialing EXCEPT ![n] = @ + 1]
    /\ UNCHANGED <<cacheVars, lockVars, dbVars, nodes, voiceVars, playerNode, open, readyOnConn, readySeen,
                   players, heap, progressTickers, ticker, task>>

\* faulty variant: a failed dial starts no retry
DialFail_NoRetry(n) ==
    /\ dialing[n] > 0
    /\ dialing' = [dialing EXCEPT ![n] = @ - 1]
    /\ node' = [node EXCEPT ![n].reconnecting = FALSE]
    /\ UNCHANGED <<cacheVars, lockVars, dbVars, nodes, voiceVars, playerNode, open, pendingConnect, readyOnConn, readySeen,
                   players, heap, progressTickers, ticker, task>>

\* the dial fails: a retry goroutine will call connect() after 5 s
DialFail(n) ==
    /\ dialing[n] > 0
    /\ dialing' = [dialing EXCEPT ![n] = @ - 1]
    /\ node' = [node EXCEPT ![n].reconnecting = FALSE]
    /\ pendingConnect' = [pendingConnect EXCEPT ![n] = @ + 1]
    /\ UNCHANGED <<cacheVars, lockVars, dbVars, nodes, voiceVars, playerNode, open, readyOnConn, readySeen,
                   players, heap, progressTickers, ticker, task>>

FreeConns(n) ==
    {c \in ConnIds : c # node[n].conn /\ \A r \in ReadersOf(n) : task[r].h # c}
FreeSlots(n) == {s \in ReaderSlots : task[ReaderId(n, s)].pc = "off"}

\* the dial succeeds: the handle is stored and a read loop is started
DialSuccess(n) ==
    /\ dialing[n] > 0
    /\ FreeConns(n) # {}
    /\ FreeSlots(n) # {}
    /\ LET c == Min(FreeConns(n))
           r == ReaderId(n, Min(FreeSlots(n)))
       IN  /\ node' = [node EXCEPT ![n].conn = c, ![n].connected = TRUE,
                                   ![n].reconnecting = FALSE]
           /\ open' = [open EXCEPT ![n] = @ \cup {c}]
           /\ task' = [task EXCEPT ![r] = [BlankTask EXCEPT !.pc = "reading", !.h = c]]
    /\ dialing' = [dialing EXCEPT ![n] = @ - 1]
    /\ readyOnConn' = [readyOnConn EXCEPT ![n] = FALSE]
    /\ UNCHANGED <<cacheVars, lockVars, dbVars, nodes, voiceVars, playerNode, pendingConnect, readySeen,
                   players, heap, progressTickers, ticker>>

\* ---- Disconnect ----
BeginDisconnect(k) ==
    /\ task[k].pc = "idle"
    /\ task' = [task EXCEPT ![k] =
          [Begin(k, "disconnect", NoGuild) EXCEPT !.pc = "disc_node", !.i = 1]]
    /\ UNCHANGED <<cacheVars, lockVars, dbVars, nodes, voiceVars, playerNode, nodeVars, players, heap, progressTickers, ticker>>

DisconnectNode(k) ==
    /\ task[k].pc = "disc_node"
    /\ task[k].i <= Len(nodes)
    /\ LET n == nodes[task[k].i]
       IN  /\ node' = [node EXCEPT ![n].connected = FALSE]
           /\ open' = [open EXCEPT ![n] = @ \ {node[n].conn}]
    /\ task' = [task EXCEPT ![k].i = @ + 1]
    /\ UNCHANGED <<cacheVars, lockVars, dbVars, nodes, voiceVars, playerNode, pendingConnect, dialing, readyOnConn, readySeen,
                   players, heap, progressTickers, ticker>>

\* faulty variant: the tickers are stopped but stay registered
DisconnectTickers_StaysRegistered(k) ==
    /\ task[k].pc = "disc_node"
    /\ task[k].i > Len(nodes)
    /\ task' = [task EXCEPT ![k] = Finish(k, "nil")]
    /\ ticker' = [i \in TickerIds |->
          IF \E g \in Guilds : progressTickers[g] = i THEN StopOne(ticker, i)[i]
          ELSE ticker[i]]
    /\ UNCHANGED <<cacheVars, lockVars, dbVars, nodes, voiceVars, playerNode, nodeVars, players, progressTickers>>
    /\ SetHeap(heap)

\* every registered ticker is stopped and unregistered
DisconnectTickers(k) ==
    /\ task[k].pc = "disc_node"
    /\ task[k].i > Len(nodes)
    /\ task' = [task EXCEPT ![k] = Finish(k, "nil")]
    /\ ticker' = [i \in TickerIds |->
          IF \E g \in Guilds : progressTickers[g] = i THEN StopOne(ticker, i)[i]
          ELSE ticker[i]]
    /\ progressTickers' = [g \in Guilds |-> 0]
    /\ UNCHANGED <<cacheVars, lockVars, dbVars, nodes, voiceVars, playerNode, nodeVars, players>>
    /\ SetHeap(heap)

\* ---- the read loop of a node (readMessages) ----
\* a frame can be read while the handle the loop blocks on is open
CanRead(r) == task[r].pc = "reading" /\ task[r].h \in open[NodeOf(r)]

\* op "ready": sid is the sessionId of the frame ("absent": no such string field)
ReadReady(r, sid) ==
    /\ CanRead(r)
    /\ LET n == NodeOf(r)
       IN  /\ node' = IF sid = "absent" THEN node ELSE [node EXCEPT ![n].sessionId = sid]
           /\ readyOnConn' =
                 IF sid \notin {"absent", ""} /\ task[r].h = node[n].conn
                 THEN [readyOnConn EXCEPT ![n] = TRUE] ELSE readyOnConn
           /\ readySeen' =
                 IF sid \notin {"absent", ""}
                 THEN [readySeen EXCEPT ![n] = TRUE] ELSE readySeen
    /\ task' = [task EXCEPT ![r] =
          [Begin(r, "ready", NoGuild) EXCEPT !.pc = "done", !.sid = sid]]
    /\ UNCHANGED <<cacheVars, lockVars, dbVars, nodes, voiceVars, playerNode, open, pendingConnect, dialing,
                   players, heap, progressTickers, ticker>>

\* op "playerUpdate": the registry lookup of handlePlayerUpdate
BeginPlayerUpdate(r, g, pos) ==
    /\ CanRead(r)
    /\ LET t == [Begin(r, "playerUpdate", g) EXCEPT !.num = pos]
       IN  task' = [task EXCEPT ![r] =
             IF players[g] # 0
             THEN [t EXCEPT !.obj = players[g], !.pc = "pu_lock"]
             ELSE [t EXCEPT !.pc = "done"]]
    /\ UNCHANGED <<cacheVars, lockVars, dbVars, nodes, voiceVars, playerNode, nodeVars, players, progressTickers, ticker>>
    /\ SetHeap(heap)

\* faulty variant: a position update also marks the player as playing
PlayerUpdateLock_MarksPlaying(r) ==
    /\ task[r].pc = "pu_lock"
    /\ task' = [task EXCEPT ![r] = Finish(r, "nil")]
    /\ UNCHANGED <<cacheVars, lockVars, dbVars, nodes, voiceVars, playerNode, nodeVars, players, progressTickers, ticker>>
    /\ SetHeap([heap EXCEPT ![task[r].obj].Position = task[r].num,
                            ![task[r].obj].IsPlaying = TRUE])

PlayerUpdateLock(r) ==
    /\ task[r].pc = "pu_lock"
    /\ task' = [task EXCEPT ![r] = Finish(r, "nil")]
    /\ UNCHANGED <<cacheVars, lockVars, dbVars, nodes, voiceVars, playerNode, nodeVars, players, progressTickers, ticker>>
    /\ SetHeap([heap EXCEPT ![task[r].obj].Position = task[r].num])

\* TrackStartEvent: handleTrackStart
BeginTrackStart(r, g) ==
    /\ CanRead(r)
    /\ CanGetPlayer(g)
    /\ task' = [task EXCEPT ![r] =
          [Begin(r, "TrackStartEvent", g) EXCEPT !.obj = GetPlayerObj(g), !.pc = "ts_read"]]
    /\ players' = GetPlayerPlayers(g)
    /\ UNCHANGED <<cacheVars, lockVars, dbVars, nodes, voiceVars, playerNode, nodeVars, progressTickers, ticker>>
    /\ SetHeap(GetPlayerHeap(g))

TrackStartRead(r) ==
    /\ task[r].pc = "ts_read"
    /\ task' = [task EXCEPT ![r] =
          IF heap[task[r].obj].CurrentTrack = NoTrack THEN Finish(r, "nil")
          ELSE [task[r] EXCEPT !.pc = "ts_stop"]]
    /\ UNCHANGED <<cacheVars, lockVars, dbVars, nodes, voiceVars, playerNode, nodeVars, players, progressTickers, ticker>>
    /\ SetHeap(heap)

\* startProgressUpdates: first stopProgressUpdates
TrackStartStop(r) ==
    /\ task[r].pc = "ts_stop"
    /\ task' = [task EXCEPT ![r] = [task[r] EXCEPT !.pc = "ts_reg"]]
    /\ ticker' = StopProgressTicker(task[r].g)
    /\ progressTickers' = StopProgressMap(task[r].g)
    /\ UNCHANGED <<cacheVars, lockVars, dbVars, nodes, voiceVars, playerNode, nodeVars, players>>
    /\ SetHeap(heap)

\* faulty variant: handleTrackStart ends without registering a ticker
TrackStartRegister_NoTicker(r) ==
    /\ task[r].pc = "ts_reg"
    /\ task' = [task EXCEPT ![r] = Finish(r, "nil")]
    /\ UNCHANGED <<cacheVars, lockVars, dbVars, nodes, voiceVars, playerNode, nodeVars, players,
                   progressTickers, ticker>>
    /\ SetHeap(heap)

\* startProgressUpdates: the new ticker is registered and its goroutine started;
\* the "playing" event published after it changes no state
TrackStartRegister(r) ==
    /\ task[r].pc = "ts_reg"
    /\ FreeTickers # {}
    /\ LET i == Min(FreeTickers)
       IN  /\ ticker' = [ticker EXCEPT ![i] =
                 [g |-> task[r].g, stopped |-> FALSE, pc |-> "wait", obj |-> 0]]
           /\ progressTickers' = [progressTickers EXCEPT ![task[r].g] = i]
    /\ task' = [task EXCEPT ![r] = Finish(r, "nil")]
    /\ UNCHANGED <<cacheVars, lockVars, dbVars, nodes, voiceVars, playerNode, nodeVars, players>>
    /\ SetHeap(heap)

\* faulty variant: handleTrackEnd leaves the progress ticker running
BeginTrackEnd_KeepsTicker(r, g) ==
    /\ CanRead(r)
    /\ task' = [task EXCEPT ![r] = [Begin(r, "TrackEndEvent", g) EXCEPT !.pc = "te_get"]]
    /\ UNCHANGED <<cacheVars, lockVars, dbVars, nodes, voiceVars, playerNode, nodeVars, players,
                   progressTickers, ticker>>
    /\ SetHeap(heap)

\* TrackEndEvent: handleTrackEnd starts with stopProgressUpdates
BeginTrackEnd(r, g) ==
    /\ CanRead(r)
    /\ task' = [task EXCEPT ![r] = [Begin(r, "TrackEndEvent", g) EXCEPT !.pc = "te_get"]]
    /\ ticker' = StopProgressTicker(g)
    /\ progressTickers' = StopProgressMap(g)
    /\ UNCHANGED <<cacheVars, lockVars, dbVars, nodes, voiceVars, playerNode, nodeVars, players>>
    /\ SetHeap(heap)

\* GetPlayer; the "stopped" event published after it changes no state
TrackEndGet(r) ==
    /\ task[r].pc = "te_get"
    /\ CanGetPlayer(task[r].g)
    /\ task' = [task EXCEPT ![r] =
          [task[r] EXCEPT !.obj = GetPlayerObj(task[r].g), !.pc = "te_lock"]]
    /\ players' = GetPlayerPlayers(task[r].g)
    /\ UNCHANGED <<cacheVars, lockVars, dbVars, nodes, voiceVars, playerNode, nodeVars, progressTickers, ticker>>
    /\ SetHeap(GetPlayerHeap(task[r].g))

TrackEndLock(r) ==
    /\ task[r].pc = "te_lock"
    /\ LET o == task[r].obj
       IN  IF Len(heap[o].Queue) > 0
           THEN /\ task' = [task EXCEPT ![r] =
                      [task[r] EXCEPT !.pc = "rest", !.i = 1,
                                      !.track = Head(heap[o].Queue),
                                      !.patch = TrackPatch(Head(heap[o].Queue))]]
                /\ UNCHANGED <<cacheVars, lockVars, dbVars, nodes, voiceVars, playerNode, nodeVars, players, progressTickers, ticker>>
                /\ SetHeap([heap EXCEPT ![o] = PopQueue(@)])
           ELSE /\ task' = [task EXCEPT ![r] = Finish(r, "nil")]
                /\ UNCHANGED <<cacheVars, lockVars, dbVars, nodes, voiceVars, playerNode, nodeVars, players, progressTickers, ticker>>
                /\ SetHeap([heap EXCEPT ![o] = QueueFinished(@)])

\* ReadMessage returns an error (the handle was closed or the network failed):
\* handleDisconnect sets connected = false and closes n.conn under the node lock
ReadError(r) ==
    /\ task[r].pc = "reading"
    /\ LET n == NodeOf(r)
       IN  /\ node' = [node EXCEPT ![n].connected = FALSE]
           /\ open' = [open EXCEPT ![n] = @ \ {task[r].h, node[n].conn}]
    /\ task' = [task EXCEPT ![r] =
          [Begin(r, "readError", NoGuild) EXCEPT !.pc = "disc_sleep"]]
    /\ UNCHANGED <<cacheVars, lockVars, dbVars, nodes, voiceVars, playerNode, pendingConnect, dialing, readyOnConn, readySeen,
                   players, heap, progressTickers, ticker>>

\* faulty variant: the read loop goes on reading after the reconnection is started
Reschedule_KeepsReading(r) ==
    /\ task[r].pc = "disc_sleep"
    /\ pendingConnect' = [pendingConnect EXCEPT ![NodeOf(r)] = @ + 1]
    /\ task' = [task EXCEPT ![r] = [BlankTask EXCEPT !.pc = "reading", !.h = task[r].h]]
    /\ UNCHANGED <<cacheVars, lockVars, dbVars, nodes, voiceVars, playerNode, node, open, dialing, readyOnConn, readySeen,
                   players, heap, progressTickers, ticker>>

\* handleDisconnect: after the 5 s sleep, go n.connect(); the read loop returns
Reschedule(r) ==
    /\ task[r].pc = "disc_sleep"
    /\ pendingConnect' = [pendingConnect EXCEPT ![NodeOf(r)] = @ + 1]
    /\ task' = [task EXCEPT ![r] = OffReader]
    /\ UNCHANGED <<cacheVars, lockVars, dbVars, nodes, voiceVars, playerNode, node, open, dialing, readyOnConn, readySeen,
                   players, heap, progressTickers, ticker>>

\* the task moves on: a caller is idle again, a read loop is back at the top of
\* its loop and blocks on n.conn
Return(k) ==
    /\ task[k].pc = "done"
    /\ task' = [task EXCEPT ![k] =
          IF k \in Callers THEN BlankTask
          ELSE [BlankTask EXCEPT !.pc = "reading", !.h = node[NodeOf(k)].conn]]
    /\ UNCHANGED <<cacheVars, lockVars, dbVars, nodes, voiceVars, playerNode, nodeVars, players, heap, progressTickers, ticker>>

\* ---- the goroutine of a progress ticker ----
\* a tick is delivered on ticker.C
Tick(i) ==
    /\ ticker[i].pc = "wait"
    /\ ~ticker[i].stopped
    /\ ticker' = [ticker EXCEPT ![i].pc = "ticked"]
    /\ UNCHANGED <<cacheVars, lockVars, dbVars, nodes, voiceVars, playerNode, nodeVars, players, heap, progressTickers, task>>

TickGetPlayer(i) ==
    /\ ticker[i].pc = "ticked"
    /\ CanGetPlayer(ticker[i].g)
    /\ ticker' = [ticker EXCEPT ![i].pc = "tick_read", ![i].obj = GetPlayerObj(ticker[i].g)]
    /\ players' = GetPlayerPlayers(ticker[i].g)
    /\ UNCHANGED <<cacheVars, lockVars, dbVars, nodes, voiceVars, playerNode, nodeVars, progressTickers, task>>
    /\ SetHeap(GetPlayerHeap(ticker[i].g))

TickRead(i) ==
    /\ ticker[i].pc = "tick_read"
    /\ ticker' = [ticker EXCEPT ![i].pc =
          IF heap[ticker[i].obj].IsPlaying THEN "publish" ELSE "stopping"]
    /\ UNCHANGED <<cacheVars, lockVars, dbVars, nodes, voiceVars, playerNode, nodeVars, players, heap, progressTickers, task>>

\* not playing: stopProgressUpdates(guildID), then the goroutine returns
TickStop(i) ==
    /\ ticker[i].pc = "stopping"
    /\ ticker' = [StopProgressTicker(ticker[i].g) EXCEPT ![i] = FreeTicker]
    /\ progressTickers' = StopProgressMap(ticker[i].g)
    /\ UNCHANGED <<cacheVars, lockVars, dbVars, nodes, voiceVars, playerNode, nodeVars, players, task>>
    /\ SetHeap(heap)

\* publishMusicEvent(guildID, "progress", player), then the next tick is awaited
TickPublish(i) ==
    /\ ticker[i].pc = "publish"
    /\ ticker' = [ticker EXCEPT ![i] =
          IF ticker[i].stopped THEN FreeTicker
          ELSE [ticker[i] EXCEPT !.pc = "wait", !.obj = 0]]
    /\ UNCHANGED <<cacheVars, lockVars, dbVars, nodes, voiceVars, playerNode, nodeVars, players, progressTickers, task>>
    /\ SetHeap(heap)

\* ---- specifications ----
\* caller 1 runs the command handlers; caller 2 is the main goroutine, which
\* calls Connect at start-up and Disconnect at shutdown
Handlers == TaskIds \ {2}

\* no command handler, frame handler or ticker iteration is in progress
Quiet == (\A k \in Handlers : ~Busy(k)) /\ (\A i \in TickerIds : ~BusyTicker(i))

\* Player plane: the commands of one caller, the frames of the node and the
\* ticks are handled one at a time; the connection tasks and the main goroutine
\* run concurrently with them; the connection is not lost
Next ==
    \/ Quiet /\ \E g \in Guilds, t \in Tracks : BeginPlay(1, g, t)
    \/ Quiet /\ \E g \in Guilds, b \in BOOLEAN : BeginPause(1, g, b)
    \/ Quiet /\ \E g \in Guilds : BeginStop(1, g)
    \/ Quiet /\ \E g \in Guilds : BeginSkip(1, g)
    \/ Quiet /\ \E g \in Guilds : BeginDestroy(1, g)
    \/ Quiet /\ \E g \in Guilds : CmdGetPlayer(1, g)
    \/ Quiet /\ \E r \in Readers : ReadReady(r, "s1")
    \/ Quiet /\ \E r \in Readers, g \in Guilds : BeginTrackStart(r, g)
    \/ Quiet /\ \E r \in Readers, g \in Guilds : BeginTrackEnd(r, g)
    \/ Quiet /\ \E i \in TickerIds : Tick(i)
    \/ \E k \in Handlers : RestPick(k)
    \/ \E k \in Handlers, ok \in BOOLEAN : UpdatePlayerHttp(k, ok)
    \/ \E k \in TaskIds : Return(k)
    \/ \E ok \in BOOLEAN : PlayJoin(1, ok)
    \/ PlayLock(1)
    \/ PauseLock(1)
    \/ StopGet(1)
    \/ StopLock(1)
    \/ StopTicker(1)
    \/ SkipLock(1)
    \/ DestroyTicker(1)
    \/ DestroyPick(1)
    \/ \E ok \in BOOLEAN : DestroyPlayerHttp(1, ok)
    \/ \E r \in Readers : TrackStartRead(r)
    \/ \E r \in Readers : TrackStartStop(r)
    \/ \E r \in Readers : TrackStartRegister(r)
    \/ \E r \in Readers : TrackEndGet(r)
    \/ \E r \in Readers : TrackEndLock(r)
    \/ \E i \in TickerIds : TickGetPlayer(i)
    \/ \E i \in TickerIds : TickRead(i)
    \/ \E i \in TickerIds : TickPublish(i)
    \/ CmdConnect(2)
    \/ BeginDisconnect(2)
    \/ DisconnectNode(2)
    \/ DisconnectTickers(2)
    \/ \E n \in NodeIds : ConnectEnter(n)
    \/ \E n \in NodeIds : DialFail(n)
    \/ \E n \in NodeIds : DialSuccess(n)

Spec == Init /\ [][Next]_vars

\* Interleaving: a caller and the read loop run their handlers concurrently,
\* step by step; the node is connected and has sent no ready frame, so that no
\* request is sent
NextRace ==
    \/ \E g \in Guilds : BeginPlay(1, g, "A")
    \/ \E g \in Guilds : BeginPause(1, g, TRUE)
    \/ \E g \in Guilds : BeginStop(1, g)
    \/ \E g \in Guilds : BeginSkip(1, g)
    \/ \E g \in Guilds : BeginSetVolume(1, g, 50)
    \/ \E g \in Guilds : BeginDestroy(1, g)
    \/ CmdConnect(2)
    \/ \E r \in Readers, g \in Guilds : BeginPlayerUpdate(r, g, 7)
    \/ \E r \in Readers, g \in Guilds : BeginTrackStart(r, g)
    \/ \E r \in Readers, g \in Guilds : BeginTrackEnd(r, g)
    \/ \E k \in TaskIds : RestPick(k)
    \/ \E k \in TaskIds : Return(k)
    \/ PlayJoin(1, TRUE)
    \/ PlayLock(1)
    \/ PauseLock(1)
    \/ StopGet(1)
    \/ StopLock(1)
    \/ StopTicker(1)
    \/ SkipLock(1)
    \/ VolumeLock(1)
    \/ DestroyTicker(1)
    \/ DestroyPick(1)
    \/ \E r \in Readers : PlayerUpdateLock(r)
    \/ \E r \in Readers : TrackStartRead(r)
    \/ \E r \in Readers : TrackStartStop(r)
    \/ \E r \in Readers : TrackStartRegister(r)
    \/ \E r \in Readers : TrackEndGet(r)
    \/ \E r \in Readers : TrackEndLock(r)
    \/ \E n \in NodeIds : ConnectEnter(n)
    \/ \E n \in NodeIds : DialSuccess(n)

SpecRace == Init /\ [][NextRace]_vars

\* Volume: the commands that create a player or set its volume, one at a time
NextVolume ==
    \/ Quiet /\ \E g \in Guilds, v \in VolumeInputs : BeginSetVolume(1, g, v)
    \/ Quiet /\ \E g \in Guilds : CmdGetPlayer(1, g)
    \/ Quiet /\ \E g \in Guilds : BeginPlay(1, g, "A")
    \/ Quiet /\ \E g \in Guilds : BeginDestroy(1, g)
    \/ Quiet /\ \E r \in Readers : ReadReady(r, "s1")
    \/ Quiet /\ \E r \in Readers, g \in Guilds : BeginTrackEnd(r, g)
    \/ \E k \in Handlers : RestPick(k)
    \/ \E k \in Handlers, ok \in BOOLEAN : UpdatePlayerHttp(k, ok)
    \/ \E k \in TaskIds : Return(k)
    \/ VolumeLock(1)
    \/ \E ok \in BOOLEAN : PlayJoin(1, ok)
    \/ PlayLock(1)
    \/ DestroyTicker(1)
    \/ DestroyPick(1)
    \/ \E ok \in BOOLEAN : DestroyPlayerHttp(1, ok)
    \/ \E r \in Readers : TrackEndGet(r)
    \/ \E r \in Readers : TrackEndLock(r)
    \/ CmdConnect(2)
    \/ \E n \in NodeIds : ConnectEnter(n)
    \/ \E n \in NodeIds : DialSuccess(n)

SpecVolume == Init /\ [][NextVolume]_vars

\* Progress tickers: a caller, the read loop and the ticker goroutines run
\* concurrently, step by step; the node has sent no ready frame
NextTicker ==
    \/ \E g \in Guilds : BeginPlay(1, g, "A")
    \/ \E g \in Guilds : BeginStop(1, g)
    \/ CmdConnect(2)
    \/ \E r \in Readers, g \in Guilds : BeginTrackStart(r, g)
    \/ \E r \in Readers, g \in Guilds : BeginTrackEnd(r, g)
    \/ \E i \in TickerIds : Tick(i)
    \/ \E k \in TaskIds : RestPick(k)
    \/ \E k \in TaskIds : Return(k)
    \/ PlayJoin(1, TRUE)
    \/ PlayLock(1)
    \/ StopLock(1)
    \/ StopTicker(1)
    \/ \E r \in Readers : TrackStartRead(r)
    \/ \E r \in Readers : TrackStartStop(r)
    \/ \E r \in Readers : TrackStartRegister(r)
    \/ \E r \in Readers : TrackEndGet(r)
    \/ \E r \in Readers : TrackEndLock(r)
    \/ \E i \in TickerIds : TickGetPlayer(i)
    \/ \E i \in TickerIds : TickRead(i)
    \/ \E i \in TickerIds : TickStop(i)
    \/ \E i \in TickerIds : TickPublish(i)
    \/ \E n \in NodeIds : ConnectEnter(n)
    \/ \E n \in NodeIds : DialSuccess(n)

SpecTicker == Init /\ [][NextTicker]_vars

\* Node: the connection tasks, the read loop and the main goroutine run
\* concurrently with a caller that uses the REST plane
NextNode ==
    \/ \E g \in Guilds : BeginPause(1, g, TRUE)
    \/ \E g \in Guilds : BeginDestroy(1, g)
    \/ BeginSearch(1)
    \/ CmdConnect(2)
    \/ BeginDisconnect(2)
    \/ DisconnectNode(2)
    \/ DisconnectTickers(2)
    \/ \E r \in Readers, sid \in SessionIds \cup {"", "absent"} : ReadReady(r, sid)
    \/ \E r \in Readers : ReadError(r)
    \/ \E r \in Readers : Reschedule(r)
    \/ \E k \in TaskIds : Return(k)
    \/ PauseLock(1)
    \/ RestPick(1)
    \/ \E ok \in BOOLEAN : UpdatePlayerHttp(1, ok)
    \/ DestroyTicker(1)
    \/ DestroyPick(1)
    \/ \E ok \in BOOLEAN : DestroyPlayerHttp(1, ok)
    \/ SearchPick(1)
    \/ \E ok \in BOOLEAN : SearchHttp(1, ok)
    \/ \E n \in NodeIds : ConnectEnter(n)
    \/ \E n \in NodeIds : DialFail(n)
    \/ \E n \in NodeIds : DialSuccess(n)

SpecNode == Init /\ [][NextNode]_vars

\* Voice: the voice events of Discord are handled one at a time by a gateway
\* task while the node connects, becomes ready and is disconnected
NextVoice ==
    \/ \E g \in Guilds, uid \in UserIds, joined \in BOOLEAN, sid \in VoiceSessions :
          BeginVoiceState(3, g, uid, joined, sid)
    \/ \E g \in Guilds, tok \in Tokens, ep \in Endpoints : BeginVoiceServer(3, g, tok, ep)
    \/ RestPick(3)
    \/ \E ok \in BOOLEAN : UpdatePlayerHttp(3, ok)
    \/ \E k \in TaskIds : Return(k)
    \/ CmdConnect(2)
    \/ BeginDisconnect(2)
    \/ DisconnectNode(2)
    \/ DisconnectTickers(2)
    \/ \E r \in Readers : ReadReady(r, "s1")
    \/ \E n \in NodeIds : ConnectEnter(n)
    \/ \E n \in NodeIds : DialSuccess(n)

SpecVoice == Init /\ [][NextVoice]_vars

\* Dialing: Connect() is called again while connection tasks of the node are
\* running, next to the retries after failed dials and the reconnections that
\* the read loops start
NextDial ==
    \/ ConnectCall(2, MaxDials)
    \/ BeginDisconnect(2)
    \/ DisconnectNode(2)
    \/ DisconnectTickers(2)
    \/ \E r \in Readers : ReadReady(r, "s1")
    \/ \E r \in Readers : ReadError(r)
    \/ \E r \in Readers : Reschedule(r)
    \/ \E k \in TaskIds : Return(k)
    \/ \E n \in NodeIds : ConnectEnter(n)
    \/ \E n \in NodeIds : DialFail(n)
    \/ \E n \in NodeIds : DialSuccess(n)

SpecDial == Init /\ [][NextDial]_vars

\* The same with the scheduling of goroutines: a connect() that was started
\* runs, a sleep ends, a handler returns, a read on a closed handle fails; a
\* dial that is attempted again and again succeeds at some attempt
FairDial ==
    /\ \A n \in NodeIds : WF_vars(ConnectEnter(n))
    /\ \A n \in NodeIds : SF_vars(DialSuccess(n))
    /\ \A r \in Readers : WF_vars(Reschedule(r))
    /\ \A r \in Readers : WF_vars(Return(r))
    /\ \A r \in Readers : WF_vars(task[r].h \notin open[NodeOf(r)] /\ ReadError(r))

SpecDialFair == Init /\ [][NextDial]_vars /\ FairDial

\* Shared player: two command handlers run Play and GetPlayer for the same
\* guild concurrently, step by step, while the node connects and becomes ready;
\* a Stop, which makes the player idle again, runs while no other command does
NoStop == \A k \in Handlers : task[k].op # "stop"

NextShared ==
    \/ NoStop /\ \E k \in {1, 3}, g \in Guilds, t \in {"A", "B"} : BeginPlay(k, g, t)
    \/ Quiet /\ \E k \in {1, 3}, g \in Guilds : BeginStop(k, g)
    \/ NoStop /\ \E k \in {1, 3}, g \in Guilds : CmdGetPlayer(k, g)
    \/ \E k \in {1, 3}, ok \in BOOLEAN : PlayJoin(k, ok)
    \/ \E k \in {1, 3} : PlayLock(k)
    \/ \E k \in {1, 3} : StopLock(k)
    \/ \E k \in {1, 3} : StopTicker(k)
    \/ \E k \in {1, 3} : RestPick(k)
    \/ \E k \in {1, 3}, ok \in BOOLEAN : UpdatePlayerHttp(k, ok)
    \/ \E k \in TaskIds : Return(k)
    \/ CmdConnect(2)
    \/ \E r \in Readers : ReadReady(r, "s1")
    \/ \E n \in NodeIds : ConnectEnter(n)
    \/ \E n \in NodeIds : DialSuccess(n)

SpecShared == Init /\ [][NextShared]_vars

\* Two nodes: the commands of one caller while the two nodes connect and become
\* ready and the first node loses its connection and reconnects
NextTwo ==
    \/ \E g \in Guilds : BeginPlay(1, g, "A")
    \/ \E g \in Guilds : BeginPause(1, g, TRUE)
    \/ PlayJoin(1, TRUE)
    \/ PlayLock(1)
    \/ PauseLock(1)
    \/ RestPick(1)
    \/ \E ok \in BOOLEAN : UpdatePlayerHttp(1, ok)
    \/ \E k \in TaskIds : Return(k)
    \/ CmdConnect(2)
    \/ \E r \in Readers : ReadReady(r, "s1")
    \/ \E s \in ReaderSlots : ReadError(ReaderId(1, s))
    \/ \E s \in ReaderSlots : Reschedule(ReaderId(1, s))
    \/ \E n \in NodeIds : ConnectEnter(n)
    \/ \E n \in NodeIds : DialSuccess(n)

SpecTwo == InitTwo /\ [][NextTwo]_vars

\* ---- frames that start no handler ----
\* stats frames, the events that are only logged, frames whose op is unknown
\* or not a string, and messages that json.Unmarshal rejects
QuietFrames ==
    {"stats", "TrackExceptionEvent", "TrackStuckEvent", "WebSocketClosedEvent",
     "unknown op", "missing op", "undecodable"}

\* faulty variant: a message that cannot be decoded ends the read loop
ReadQuietFrame_StopsOnGarbage(r, kind) ==
    /\ CanRead(r)
    /\ task' = [task EXCEPT ![r] =
          [Begin(r, kind, NoGuild) EXCEPT
              !.pc = IF kind = "undecodable" THEN "off" ELSE "done", !.ret = "nil"]]
    /\ UNCHANGED <<cacheVars, lockVars, dbVars, nodes, voiceVars, playerNode, nodeVars, players, heap,
                   progressTickers, ticker>>

\* readMessages reads the frame, handleMessage and handleEvent fall through
\* (or the loop continues after the failed Unmarshal), and the loop goes on
ReadQuietFrame(r, kind) ==
    /\ CanRead(r)
    /\ task' = [task EXCEPT ![r] = [Begin(r, kind, NoGuild) EXCEPT !.pc = "done", !.ret = "nil"]]
    /\ UNCHANGED <<cacheVars, lockVars, dbVars, nodes, voiceVars, playerNode, nodeVars, players, heap,
                   progressTickers, ticker>>

\* Frames: one caller plays and pauses while the read loops of the node get
\* ready frames and frames that start no handler; the connection is closed
\* and made again
NextFrames ==
    \/ \E g \in Guilds : BeginPlay(1, g, "A")
    \/ \E g \in Guilds : BeginPause(1, g, TRUE)
    \/ PlayJoin(1, TRUE)
    \/ PlayLock(1)
    \/ PauseLock(1)
    \/ RestPick(1)
    \/ \E ok \in BOOLEAN : UpdatePlayerHttp(1, ok)
    \/ \E k \in TaskIds : Return(k)
    \/ CmdConnect(2)
    \/ \E r \in Readers : ReadReady(r, "s1")
    \/ \E r \in Readers, kind \in QuietFrames : ReadQuietFrame(r, kind)
    \/ \E r \in Readers : ReadError(r)
    \/ \E r \in Readers : Reschedule(r)
    \/ \E n \in NodeIds : ConnectEnter(n)
    \/ \E n \in NodeIds : DialSuccess(n)

SpecFrames == Init /\ [][NextFrames]_vars

\* ======== database package: connection, DataManager, premium codes ========
FreeSyncs == {s \in SyncTasks : dbtask[s].pc = "off"}
FreeCodeObjs == {o \in CodeObjIds : ~codeObjs[o].exists}
CanQueue == database.nextOp <= MaxOps

\* a code object lives while the cache or a local variable points to it
CodeRefs(dm, t) == {dm.cache[c] : c \in CodeIds} \cup {t[k].obj : k \in DbTaskIds}
SetCodeObjs(h) ==
    codeObjs' = [o \in CodeObjIds |->
                    IF o \in CodeRefs(premiumDM', dbtask') THEN h[o] ELSE NoDoc]

DbFinish(k, r) == [dbtask[k] EXCEPT !.pc = "done", !.ret = r]

AddToWriteQueue(d, coll, key, operation, data) ==
    [d EXCEPT !.writeQueue = Append(@, QueuedOperation(d.nextOp, coll, key, operation, data)),
              !.nextOp = @ + 1]

\* UpdateOne with $set and upsert, DeleteOne
ApplyOperation(m, op) ==
    IF op.Operation = "delete" THEN [m EXCEPT !.codes[op.key] = NoDoc]
    ELSE IF op.CollectionName = "premium" THEN [m EXCEPT !.premium = @ \cup {op.key}]
    ELSE [m EXCEPT !.codes[op.key] = op.Data]

\* handleDisconnection: does nothing unless IsConnected is still set
handleDisconnection(d) ==
    IF ~d.IsConnected THEN d
    ELSE [d EXCEPT !.IsConnected = FALSE, !.reconnectTicker = TRUE]

\* Database.Connect, its whole body under d.mu; a successful connect starts
\* syncOfflineWrites in a goroutine
Connect(k, from, to) ==
    /\ dbtask[k].pc = from
    /\ database.IsConnected \/ ~mongo.up \/ FreeSyncs # {}
    /\ IF database.IsConnected
       THEN /\ dbtask' = [dbtask EXCEPT ![k] =
                  [BlankDbTask EXCEPT !.op = "connect", !.pc = to, !.ret = "nil"]]
            /\ UNCHANGED database
       ELSE IF ~mongo.up
       THEN /\ database' = handleDisconnection(database)
            /\ dbtask' = [dbtask EXCEPT ![k] =
                  [BlankDbTask EXCEPT !.op = "connect", !.pc = to, !.ret = "err"]]
       ELSE /\ database' = [database EXCEPT !.IsConnected = TRUE, !.db = TRUE,
                                            !.reconnectTicker = FALSE]
            /\ dbtask' = [dbtask EXCEPT
                  ![k] = [BlankDbTask EXCEPT !.op = "connect", !.pc = to, !.ret = "nil"],
                  ![Min(FreeSyncs)] = [BlankDbTask EXCEPT !.op = "sync", !.pc = "sync_take"]]
    /\ UNCHANGED <<cacheVars, lockVars, lavalinkVars, mongo, premiumDM, codeObjs, grants, issued>>

\* main: database.Init, the error is logged and the bot goes on
DatabaseInit == Connect(MainTask, "start", "managers")

\* main: InitGlobalDataManagers; NewDataManager stores db.GetCollection(name),
\* which is nil while d.db is nil
InitGlobalDataManagers ==
    /\ dbtask[MainTask].pc = "managers"
    /\ premiumDM' = [premiumDM EXCEPT !.ready = TRUE, !.collection = database.db]
    /\ dbtask' = [dbtask EXCEPT ![MainTask] = BlankDbTask]
    /\ UNCHANGED <<cacheVars, lockVars, lavalinkVars, database, mongo, codeObjs, grants, issued>>

\* Database.Connect called again
DbConnect(k) == dbtask[MainTask].pc = "idle" /\ Connect(k, "idle", "done")

\* Database.Disconnect; ok: client.Disconnect returned nil
DbDisconnect(k, ok) ==
    /\ dbtask[k].pc = "idle"
    /\ dbtask[MainTask].pc = "idle"
    /\ ~database.closed
    /\ database' = [database EXCEPT !.closed = TRUE,
                                    !.IsConnected = IF database.db /\ ok THEN FALSE ELSE @]
    /\ dbtask' = [dbtask EXCEPT ![k] =
          [BlankDbTask EXCEPT !.op = "disconnect", !.pc = "done",
                              !.ret = IF database.db /\ ~ok THEN "err" ELSE "nil"]]
    /\ UNCHANGED <<cacheVars, lockVars, lavalinkVars, mongo, premiumDM, codeObjs, grants, issued>>

\* the server becomes unreachable, or reachable again
ServerDown ==
    /\ mongo.up
    /\ mongo' = [mongo EXCEPT !.up = FALSE]
    /\ UNCHANGED <<cacheVars, lockVars, lavalinkVars, database, premiumDM, codeObjs, dbtask, grants, issued>>

ServerUp ==
    /\ ~mongo.up
    /\ mongo' = [mongo EXCEPT !.up = TRUE]
    /\ UNCHANGED <<cacheVars, lockVars, lavalinkVars, database, premiumDM, codeObjs, dbtask, grants, issued>>

\* ---- DataManager.Get on the premium-code manager ----
\* cache hit: the cached object itself is returned
DmGet(k) ==
    /\ dbtask[k].pc = "get"
    /\ dbtask' = [dbtask EXCEPT ![k] =
          IF premiumDM.cache[dbtask[k].code] # 0
          THEN [dbtask[k] EXCEPT !.obj = premiumDM.cache[dbtask[k].code], !.pc = "check"]
          ELSE IF ~database.IsConnected \/ ~premiumDM.collection
          THEN DbFinish(k, "err")
          ELSE [dbtask[k] EXCEPT !.pc = "find"]]
    /\ UNCHANGED <<cacheVars, lockVars, lavalinkVars, database, mongo, premiumDM, grants, issued>>
    /\ SetCodeObjs(codeObjs)

\* FindOne; no document makes GetPremiumCode return ErrCodeNotFound
DmFind(k) ==
    /\ dbtask[k].pc = "find"
    /\ dbtask' = [dbtask EXCEPT ![k] =
          IF ~mongo.up THEN DbFinish(k, "err")
          ELSE IF ~mongo.codes[dbtask[k].code].exists THEN DbFinish(k, "ErrCodeNotFound")
          ELSE [dbtask[k] EXCEPT !.data = mongo.codes[dbtask[k].code], !.pc = "cache"]]
    /\ UNCHANGED <<cacheVars, lockVars, lavalinkVars, database, mongo, premiumDM, grants, issued>>
    /\ SetCodeObjs(codeObjs)

\* the decoded document becomes a new object, stored in the cache
DmCache(k) ==
    /\ dbtask[k].pc = "cache"
    /\ FreeCodeObjs # {}
    /\ LET o == Min(FreeCodeObjs)
       IN  /\ dbtask' = [dbtask EXCEPT ![k] =
                 [dbtask[k] EXCEPT !.obj = o, !.data = NoDoc, !.pc = "check"]]
           /\ premiumDM' = [premiumDM EXCEPT !.cache[dbtask[k].code] = o]
           /\ SetCodeObjs([codeObjs EXCEPT ![o] = dbtask[k].data])
    /\ UNCHANGED <<cacheVars, lockVars, lavalinkVars, database, mongo, grants, issued>>

\* ---- DataManager.Set on the premium-code manager ----
\* offline: the write is queued and (nil, nil) returned; connected: the
\* document is upserted and the returned document cached; a failed write is
\* queued and its error returned.  dm.collection.Name() on a manager created
\* without a collection panics.
DmSet(k) ==
    /\ dbtask[k].pc = "set"
    /\ LET c == dbtask[k].code
           offline == ~database.IsConnected \/ ~premiumDM.collection
           after == IF dbtask[k].op = "create" THEN DbFinish(k, "nil")
                    ELSE [dbtask[k] EXCEPT !.pc = "grant"]
       IN  IF offline /\ ~premiumDM.collection
           THEN /\ dbtask' = [dbtask EXCEPT ![k] = DbFinish(k, "panic")]
                /\ UNCHANGED <<database, mongo, premiumDM>>
                /\ SetCodeObjs(codeObjs)
           ELSE IF offline
           THEN /\ CanQueue
                /\ database' = AddToWriteQueue(database, "codes", c, "set", dbtask[k].data)
                /\ dbtask' = [dbtask EXCEPT ![k] = after]
                /\ UNCHANGED <<mongo, premiumDM>>
                /\ SetCodeObjs(codeObjs)
           ELSE IF ~mongo.up
           THEN /\ CanQueue
                /\ database' = AddToWriteQueue(database, "codes", c, "set", dbtask[k].data)
                /\ dbtask' = [dbtask EXCEPT ![k] = DbFinish(k, "err")]
                /\ UNCHANGED <<mongo, premiumDM>>
                /\ SetCodeObjs(codeObjs)
           ELSE /\ FreeCodeObjs # {}
                /\ mongo' = [mongo EXCEPT !.codes[c] = dbtask[k].data]
                /\ premiumDM' = [premiumDM EXCEPT !.cache[c] = Min(FreeCodeObjs)]
                /\ dbtask' = [dbtask EXCEPT ![k] = after]
                /\ UNCHANGED database
                /\ SetCodeObjs([codeObjs EXCEPT ![Min(FreeCodeObjs)] = dbtask[k].data])
    /\ UNCHANGED <<cacheVars, lockVars, lavalinkVars, grants, issued>>

\* ---- DataManager.Delete on the premium-code manager ----
BeginDeletePremiumCode(k, c) ==
    /\ dbtask[k].pc = "idle"
    /\ dbtask[MainTask].pc = "idle"
    /\ dbtask' = [dbtask EXCEPT ![k] =
          IF ~premiumDM.ready
          THEN [BlankDbTask EXCEPT !.op = "delete", !.code = c, !.pc = "done", !.ret = "err"]
          ELSE [BlankDbTask EXCEPT !.op = "delete", !.code = c, !.pc = "delete"]]
    /\ premiumDM' = IF premiumDM.ready THEN [premiumDM EXCEPT !.cache[c] = 0] ELSE premiumDM
    /\ UNCHANGED <<cacheVars, lockVars, lavalinkVars, database, mongo, grants, issued>>
    /\ SetCodeObjs(codeObjs)

DmDelete(k) ==
    /\ dbtask[k].pc = "delete"
    /\ LET c == dbtask[k].code
           offline == ~database.IsConnected \/ ~premiumDM.collection
       IN  IF offline /\ ~premiumDM.collection
           THEN /\ dbtask' = [dbtask EXCEPT ![k] = DbFinish(k, "panic")]
                /\ UNCHANGED <<database, mongo>>
           ELSE IF offline \/ ~mongo.up
           THEN /\ CanQueue
                /\ database' = AddToWriteQueue(database, "codes", c, "delete", NoDoc)
                /\ dbtask' = [dbtask EXCEPT ![k] =
                      DbFinish(k, IF offline THEN "nil" ELSE "err")]
                /\ UNCHANGED mongo
           ELSE /\ mongo' = [mongo EXCEPT !.codes[c] = NoDoc]
                /\ dbtask' = [dbtask EXCEPT ![k] = DbFinish(k, "nil")]
                /\ UNCHANGED database
    /\ UNCHANGED <<cacheVars, lockVars, lavalinkVars, premiumDM, codeObjs, grants, issued>>

\* ---- premium codes ----
\* CreatePremiumCode: a freshly generated code is written with Set
CreatePremiumCode(k, c, ty) ==
    /\ dbtask[k].pc = "idle"
    /\ dbtask[MainTask].pc = "idle"
    /\ c \notin issued
    /\ issued' = issued \cup {c}
    /\ dbtask' = [dbtask EXCEPT ![k] =
          IF ~premiumDM.ready
          THEN [BlankDbTask EXCEPT !.op = "create", !.code = c, !.pc = "done", !.ret = "err"]
          ELSE [BlankDbTask EXCEPT !.op = "create", !.code = c, !.data = NewCode(ty),
                                   !.pc = "set"]]
    /\ UNCHANGED <<cacheVars, lockVars, lavalinkVars, database, mongo, premiumDM, codeObjs, grants>>

\* RedeemPremiumCode (op "redeemUser") and RedeemPremiumCodeForGuild
\* (op "redeemGuild") start alike: the manager, then GetPremiumCode
BeginRedeem(k, operation, c, by, to) ==
    /\ dbtask[k].pc = "idle"
    /\ dbtask[MainTask].pc = "idle"
    /\ Len(grants) < MaxGrants
    /\ dbtask' = [dbtask EXCEPT ![k] =
          IF ~premiumDM.ready
          THEN [BlankDbTask EXCEPT !.op = operation, !.code = c, !.by = by, !.to = to,
                                   !.pc = "done", !.ret = "err"]
          ELSE [BlankDbTask EXCEPT !.op = operation, !.code = c, !.by = by, !.to = to,
                                   !.pc = "get"]]
    /\ UNCHANGED <<cacheVars, lockVars, lavalinkVars, database, mongo, premiumDM, codeObjs, grants, issued>>

RedeemPremiumCode(k, c, by) == BeginRedeem(k, "redeemUser", c, by, by)
RedeemPremiumCodeForGuild(k, c, g, by) == BeginRedeem(k, "redeemGuild", c, by, g)

\* the claimed flag is read, then the type for a guild redemption
RedeemCheck(k) ==
    /\ dbtask[k].pc = "check"
    /\ dbtask' = [dbtask EXCEPT ![k] =
          IF codeObjs[dbtask[k].obj].IsClaimed THEN DbFinish(k, "ErrCodeAlreadyClaimed")
          ELSE IF dbtask[k].op = "redeemGuild" /\ codeObjs[dbtask[k].obj].Type # "guild"
          THEN DbFinish(k, "err")
          ELSE [dbtask[k] EXCEPT !.pc = "mark"]]
    /\ UNCHANGED <<cacheVars, lockVars, lavalinkVars, database, mongo, premiumDM, grants, issued>>
    /\ SetCodeObjs(codeObjs)

\* the object is marked as claimed and copied for Set
RedeemMark(k) ==
    /\ dbtask[k].pc = "mark"
    /\ LET o == dbtask[k].obj
           marked == [codeObjs[o] EXCEPT !.IsClaimed = TRUE, !.ClaimedBy = dbtask[k].by]
       IN  /\ dbtask' = [dbtask EXCEPT ![k] = [dbtask[k] EXCEPT !.data = marked, !.pc = "set"]]
           /\ UNCHANGED premiumDM
           /\ SetCodeObjs([codeObjs EXCEPT ![o] = marked])
    /\ UNCHANGED <<cacheVars, lockVars, lavalinkVars, database, mongo, grants, issued>>

\* GrantUserPremium / GrantGuildPremium: a Set on the premium manager;
\* RedeemPremiumCode grants only for a user code
RedeemGrant(k) ==
    /\ dbtask[k].pc = "grant"
    /\ LET offline == ~database.IsConnected \/ ~premiumDM.collection
           none == dbtask[k].op = "redeemUser" /\ dbtask[k].data.Type # "user"
           done == [code |-> dbtask[k].code, by |-> dbtask[k].by,
                    to |-> IF none THEN "none" ELSE dbtask[k].to]
       IN  IF none
           THEN /\ grants' = Append(grants, done)
                /\ dbtask' = [dbtask EXCEPT ![k] = DbFinish(k, "ok")]
                /\ UNCHANGED <<database, mongo>>
           ELSE IF offline
           THEN /\ CanQueue
                /\ database' = AddToWriteQueue(database, "premium", dbtask[k].to, "set", NoDoc)
                /\ grants' = Append(grants, done)
                /\ dbtask' = [dbtask EXCEPT ![k] = DbFinish(k, "ok")]
                /\ UNCHANGED mongo
           ELSE IF ~mongo.up
           THEN /\ CanQueue
                /\ database' = AddToWriteQueue(database, "premium", dbtask[k].to, "set", NoDoc)
                /\ dbtask' = [dbtask EXCEPT ![k] = DbFinish(k, "err")]
                /\ UNCHANGED <<mongo, grants>>
           ELSE /\ mongo' = [mongo EXCEPT !.premium = @ \cup {dbtask[k].to}]
                /\ grants' = Append(grants, done)
                /\ dbtask' = [dbtask EXCEPT ![k] = DbFinish(k, "ok")]
                /\ UNCHANGED database
    /\ UNCHANGED <<cacheVars, lockVars, lavalinkVars, premiumDM, issued>>
    /\ SetCodeObjs(codeObjs)

DbReturn(k) ==
    /\ dbtask[k].pc = "done"
    /\ dbtask' = [dbtask EXCEPT ![k] = BlankDbTask]
    /\ UNCHANGED <<cacheVars, lockVars, lavalinkVars, database, mongo, premiumDM, grants, issued>>
    /\ SetCodeObjs(codeObjs)

\* ---- syncOfflineWrites ----
\* the queue is copied and emptied under queueMu
SyncTake(s) ==
    /\ dbtask[s].pc = "sync_take"
    /\ IF database.writeQueue = <<>>
       THEN /\ dbtask' = [dbtask EXCEPT ![s] = OffSync]
            /\ UNCHANGED database
       ELSE /\ dbtask' = [dbtask EXCEPT ![s] =
                  [dbtask[s] EXCEPT !.operations = database.writeQueue, !.pc = "sync_op"]]
            /\ database' = [database EXCEPT !.writeQueue = <<>>]
    /\ UNCHANGED <<cacheVars, lockVars, lavalinkVars, mongo, premiumDM, codeObjs, grants, issued>>

\* one operation of the copy: skipped when its collection is not found,
\* applied, or kept in failedOps when the write fails
SyncOperation(s) ==
    /\ dbtask[s].pc = "sync_op"
    /\ IF dbtask[s].operations = <<>>
       THEN /\ dbtask' = [dbtask EXCEPT ![s] = [dbtask[s] EXCEPT !.pc = "sync_end"]]
            /\ UNCHANGED mongo
       ELSE LET op == Head(dbtask[s].operations)
                rest == Tail(dbtask[s].operations)
            IN  IF ~database.db
                THEN /\ dbtask' = [dbtask EXCEPT ![s] = [dbtask[s] EXCEPT !.operations = rest]]
                     /\ UNCHANGED mongo
                ELSE IF mongo.up
                THEN /\ mongo' = [ApplyOperation(mongo, op) EXCEPT !.applied = @ \cup {op.id}]
                     /\ dbtask' = [dbtask EXCEPT ![s] = [dbtask[s] EXCEPT !.operations = rest]]
                ELSE /\ dbtask' = [dbtask EXCEPT ![s] =
                           [dbtask[s] EXCEPT !.operations = rest,
                                             !.failedOps = Append(@, op)]]
                     /\ UNCHANGED mongo
    /\ UNCHANGED <<cacheVars, lockVars, lavalinkVars, database, premiumDM, codeObjs, grants, issued>>

\* faulty variant: the failed operations are forgotten
SyncRequeue_Drops(s) ==
    /\ dbtask[s].pc = "sync_end"
    /\ dbtask' = [dbtask EXCEPT ![s] = OffSync]
    /\ UNCHANGED <<cacheVars, lockVars, lavalinkVars, database, mongo, premiumDM, codeObjs, grants, issued>>

\* the failed operations go back to the end of the queue
SyncRequeue(s) ==
    /\ dbtask[s].pc = "sync_end"
    /\ database' = [database EXCEPT !.writeQueue = @ \o dbtask[s].failedOps]
    /\ dbtask' = [dbtask EXCEPT ![s] = OffSync]
    /\ UNCHANGED <<cacheVars, lockVars, lavalinkVars, mongo, premiumDM, codeObjs, grants, issued>>

\* Premium codes: two command handlers redeem concurrently; the database is
\* connected at start-up and stays reachable
NextPremium ==
    \/ DatabaseInit
    \/ InitGlobalDataManagers
    \/ \E c \in CodeIds, ty \in CodeTypes : CreatePremiumCode(1, c, ty)
    \/ \E k \in DbCallers, c \in CodeIds, by \in Redeemers : RedeemPremiumCode(k, c, by)
    \/ \E k \in DbCallers, c \in CodeIds, by \in Redeemers :
          RedeemPremiumCodeForGuild(k, c, PremiumGuild, by)
    \/ \E k \in DbCallers : DmGet(k)
    \/ \E k \in DbCallers : DmFind(k)
    \/ \E k \in DbCallers : DmCache(k)
    \/ \E k \in DbCallers : RedeemCheck(k)
    \/ \E k \in DbCallers : RedeemMark(k)
    \/ \E k \in DbCallers : DmSet(k)
    \/ \E k \in DbCallers : RedeemGrant(k)
    \/ \E k \in DbCallers : DbReturn(k)
    \/ \E s \in SyncTasks : SyncTake(s)

SpecPremium == Init /\ [][NextPremium]_vars

\* Database: the connection is made, closed and made again while the server
\* comes and goes; a code is created and deleted meanwhile
NextDatabase ==
    \/ DatabaseInit
    \/ InitGlobalDataManagers
    \/ DbConnect(2)
    \/ \E ok \in BOOLEAN : DbDisconnect(2, ok)
    \/ ServerDown
    \/ ServerUp
    \/ \E c \in CodeIds, ty \in CodeTypes : CreatePremiumCode(1, c, ty)
    \/ \E c \in CodeIds : BeginDeletePremiumCode(1, c)
    \/ DmSet(1)
    \/ DmDelete(1)
    \/ \E k \in DbCallers : DbReturn(k)
    \/ \E s \in SyncTasks : SyncTake(s)
    \/ \E s \in SyncTasks : SyncOperation(s)
    \/ \E s \in SyncTasks : SyncRequeue(s)

SpecDatabase == Init /\ [][NextDatabase]_vars

\* ======== lock discipline of the Lavalink client ========
\* The lock and unlock calls of every operation, in program order.  c.mu is
\* the registry lock, player.Mu the lock of the guild's player, node.mu the
\* lock of the node.
Locked(m) == <<[a |-> "Lock", m |-> m], [a |-> "Unlock", m |-> m]>>
RLocked(m) == <<[a |-> "RLock", m |-> m], [a |-> "RUnlock", m |-> m]>>

\* faulty variant: GetPlayer locks the new player while it holds the registry
GetPlayerLocks_Nested ==
    <<[a |-> "Lock", m |-> "c.mu"], [a |-> "Lock", m |-> "player.Mu"],
      [a |-> "Unlock", m |-> "player.Mu"], [a |-> "Unlock", m |-> "c.mu"]>>

GetPlayerLocks == Locked("c.mu")
stopProgressUpdatesLocks == Locked("c.mu")
publishMusicEventLocks == RLocked("player.Mu")
\* the node loop reads node.connected, updatePlayer reads the session id
updatePlayerLocks == RLocked("node.mu") \o RLocked("node.mu")

LockProgram(op) ==
    CASE op = "GetPlayer" -> GetPlayerLocks
      [] op = "DestroyPlayer" ->
            Locked("c.mu") \o stopProgressUpdatesLocks \o RLocked("node.mu")
               \o RLocked("node.mu")
      [] op = "Search" -> RLocked("node.mu")
      [] op = "Play" ->
            GetPlayerLocks \o Locked("player.Mu") \o Locked("player.Mu") \o updatePlayerLocks
      [] op \in {"Pause", "SetVolume", "Skip"} ->
            GetPlayerLocks \o Locked("player.Mu") \o updatePlayerLocks
      [] op = "Stop" ->
            GetPlayerLocks \o Locked("player.Mu") \o stopProgressUpdatesLocks
               \o updatePlayerLocks
      [] op = "SkipEmpty" ->
            GetPlayerLocks \o Locked("player.Mu") \o GetPlayerLocks \o Locked("player.Mu")
               \o stopProgressUpdatesLocks \o updatePlayerLocks
      [] op = "connect" -> Locked("node.mu") \o Locked("node.mu")
      [] op \in {"ready", "handleDisconnect"} -> Locked("node.mu")
      [] op = "handlePlayerUpdate" -> RLocked("c.mu") \o Locked("player.Mu")
      [] op = "handleTrackStart" ->
            GetPlayerLocks \o RLocked("player.Mu") \o stopProgressUpdatesLocks
               \o Locked("c.mu") \o publishMusicEventLocks
      [] op = "handleTrackEnd" ->
            stopProgressUpdatesLocks \o GetPlayerLocks \o publishMusicEventLocks
               \o Locked("player.Mu") \o updatePlayerLocks
      [] op = "tick" -> GetPlayerLocks \o RLocked("player.Mu") \o publishMusicEventLocks
      [] op = "tickStopped" ->
            GetPlayerLocks \o RLocked("player.Mu") \o stopProgressUpdatesLocks
      [] op = "voiceServerUpdate" -> updatePlayerLocks
      [] op = "Disconnect" -> Locked("node.mu") \o Locked("c.mu")
      [] op = "queueHandler" -> GetPlayerLocks \o RLocked("player.Mu")

LockOps ==
    {"GetPlayer", "DestroyPlayer", "Search", "Play", "Pause", "SetVolume", "Skip", "Stop",
     "SkipEmpty", "connect", "ready", "handleDisconnect", "handlePlayerUpdate",
     "handleTrackStart", "handleTrackEnd", "tick", "tickStopped", "voiceServerUpdate",
     "Disconnect", "queueHandler"}

\* the locks task k holds
Held(k) == {m \in Mutexes : mutex[m].w = k \/ k \in mutex[m].r}

\* sync.RWMutex: Lock waits for the writer and all readers, RLock for the writer
CanLockStep(k) ==
    /\ lockTask[k].op # "none"
    /\ LET e == LockProgram(lockTask[k].op)[lockTask[k].i]
       IN  CASE e.a = "Lock" -> mutex[e.m].w = 0 /\ mutex[e.m].r = {}
             [] e.a = "RLock" -> mutex[e.m].w = 0 /\ k \notin mutex[e.m].r
             [] OTHER -> TRUE

\* a goroutine starts an operation
LockBegin(k, op) ==
    /\ lockTask[k].op = "none"
    /\ lockTask' = [lockTask EXCEPT ![k] = [op |-> op, i |-> 1]]
    /\ UNCHANGED <<lavalinkVars, dbVars, cacheVars, mutex>>

\* the next lock or unlock call of the operation; after the last the task is free
LockStep(k) ==
    /\ CanLockStep(k)
    /\ LET prog == LockProgram(lockTask[k].op)
           e == prog[lockTask[k].i]
       IN  /\ mutex' =
                 CASE e.a = "Lock" -> [mutex EXCEPT ![e.m].w = k]
                   [] e.a = "Unlock" -> [mutex EXCEPT ![e.m].w = 0]
                   [] e.a = "RLock" -> [mutex EXCEPT ![e.m].r = @ \cup {k}]
                   [] e.a = "RUnlock" -> [mutex EXCEPT ![e.m].r = @ \ {k}]
           /\ lockTask' = [lockTask EXCEPT ![k] =
                 IF lockTask[k].i = Len(prog) THEN [op |-> "none", i |-> 0]
                 ELSE [lockTask[k] EXCEPT !.i = @ + 1]]
    /\ UNCHANGED <<lavalinkVars, dbVars, cacheVars>>

\* Locks: two goroutines run any operations of the client concurrently
NextLocks ==
    \/ \E k \in LockTasks, op \in LockOps : LockBegin(k, op)
    \/ \E k \in LockTasks : LockStep(k)

SpecLocks == Init /\ [][NextLocks]_vars

\* ---- commands and node events of one guild, run concurrently ----
\* the Track values of one run are distinct objects: a track that is current,
\* queued or held by a handler is not passed to Play again
TracksInUse ==
    {heap[o].CurrentTrack : o \in ObjIds}
        \cup UNION {{heap[o].Queue[j] : j \in 1..Len(heap[o].Queue)} : o \in ObjIds}
        \cup {task[k].track : k \in TaskIds}

\* the node is connected and has sent its session id
NodeReady == \E n \in NodeIds : RestReady(n)

\* once the node is ready, a caller plays, skips and stops while the read loop
\* handles the TrackEndEvent frames of the node; neither waits for the other,
\* and every request succeeds
NextQueue ==
    \/ NodeReady /\ \E g \in Guilds, t \in Tracks \ TracksInUse : BeginPlay(1, g, t)
    \/ NodeReady /\ \E g \in Guilds : BeginSkip(1, g)
    \/ NodeReady /\ \E g \in Guilds : BeginStop(1, g)
    \/ NodeReady /\ \E r \in Readers, g \in Guilds : BeginTrackEnd(r, g)
    \/ PlayJoin(1, TRUE)
    \/ PlayLock(1)
    \/ SkipLock(1)
    \/ StopGet(1)
    \/ StopLock(1)
    \/ StopTicker(1)
    \/ \E r \in Readers : TrackEndGet(r)
    \/ \E r \in Readers : TrackEndLock(r)
    \/ \E k \in Handlers : RestPick(k)
    \/ \E k \in Handlers : UpdatePlayerHttp(k, TRUE)
    \/ \E k \in TaskIds : Return(k)
    \/ CmdConnect(2)
    \/ \E r \in Readers : ReadReady(r, "s1")
    \/ \E n \in NodeIds : ConnectEnter(n)
    \/ \E n \in NodeIds : DialSuccess(n)

SpecQueue == Init /\ [][NextQueue]_vars

\* ---- shutdown ----
\* the main goroutine calls Connect and Disconnect while connection tasks and
\* read loops run; a caller plays a track and the TrackStartEvent of the node
\* registers a progress ticker, one handler at a time
NextShutdown ==
    \/ CmdConnect(2)
    \/ BeginDisconnect(2)
    \/ DisconnectNode(2)
    \/ DisconnectTickers(2)
    \/ Quiet /\ \E g \in Guilds : BeginPlay(1, g, "A")
    \/ PlayJoin(1, TRUE)
    \/ PlayLock(1)
    \/ RestPick(1)
    \/ Quiet /\ \E r \in Readers, g \in Guilds : BeginTrackStart(r, g)
    \/ \E r \in Readers : TrackStartRead(r)
    \/ \E r \in Readers : TrackStartStop(r)
    \/ \E r \in Readers : TrackStartRegister(r)
    \/ \E r \in Readers : ReadError(r)
    \/ \E r \in Readers : Reschedule(r)
    \/ \E k \in TaskIds : Return(k)
    \/ \E n \in NodeIds : ConnectEnter(n)
    \/ \E n \in NodeIds : DialFail(n)
    \/ \E n \in NodeIds : DialSuccess(n)

\* with the scheduling of goroutines (FairDial)
SpecShutdown == Init /\ [][NextShutdown]_vars /\ FairDial

\* ---- DataManager: the LRU cache ----
\* container/list: the element is moved only if it belongs to the list
MoveToFront(l, e) ==
    IF \E j \in 1..Len(l) : l[j] = e THEN <<e>> \o SelectSeq(l, LAMBDA x : x # e) ELSE l

Remove(l, e) == SelectSeq(l, LAMBDA x : x # e)

\* elements that the list, the map and the callers no longer refer to
FreeElems ==
    {e \in ElemIds : /\ \A j \in 1..Len(dataManager.cacheList) : dataManager.cacheList[j] # e
                     /\ \A c \in CacheKeys : dataManager.cache[c] # e
                     /\ \A k \in CacheTasks : dmTask[k].elem # e}

\* elements no longer in use lose their entry
SetDm(d) ==
    dataManager' = [d EXCEPT !.key = [e \in ElemIds |->
              IF \/ \E j \in 1..Len(d.cacheList) : d.cacheList[j] = e
                 \/ \E k \in CacheTasks : dmTask'[k].elem = e
              THEN d.key[e] ELSE "none"]]

\* "Evict if over capacity": the entry at the back of the list goes, and the
\* map entry of its key with it
Evict(d) ==
    IF MaxCacheSize > 0 /\ Len(d.cacheList) > MaxCacheSize
    THEN LET oldest == d.cacheList[Len(d.cacheList)]
         IN  [d EXCEPT !.cache[d.key[oldest]] = 0, !.cacheList = Remove(@, oldest)]
    ELSE d

\* elem := dataManager.cacheList.PushFront(entry); dataManager.cache[cacheKey] = elem; evict
AddToCache(d, c, e) ==
    Evict([d EXCEPT !.key[e] = c, !.cacheList = <<e>> \o @, !.cache[c] = e])

CacheFinish(k) == [dmTask EXCEPT ![k] = BlankCacheTask]

\* Get: the cache is looked up under the read lock
GetCheck(k, c) ==
    /\ dmTask[k].pc = "idle"
    /\ dmTask' = [dmTask EXCEPT ![k] =
          IF dataManager.cache[c] # 0
          THEN [pc |-> "get_hit", key |-> c, elem |-> dataManager.cache[c]]
          ELSE [pc |-> "get_find", key |-> c, elem |-> 0]]
    /\ SetDm(dataManager)
    /\ UNCHANGED <<lavalinkVars, dbVars, lockVars>>

\* Get, cache hit: the write lock is taken and the element moved to the front
GetHit(k) ==
    /\ dmTask[k].pc = "get_hit"
    /\ dmTask' = CacheFinish(k)
    /\ SetDm([dataManager EXCEPT !.cacheList = MoveToFront(@, dmTask[k].elem)])
    /\ UNCHANGED <<lavalinkVars, dbVars, lockVars>>

\* Get, cache miss: FindOne finds the document, or there is none, or the
\* database is not connected
GetFindOne(k, found) ==
    /\ dmTask[k].pc = "get_find"
    /\ dmTask' = IF found THEN [dmTask EXCEPT ![k].pc = "get_add"] ELSE CacheFinish(k)
    /\ SetDm(dataManager)
    /\ UNCHANGED <<lavalinkVars, dbVars, lockVars>>

\* Get, cache miss: "Add to cache" under the write lock
GetAdd(k) ==
    /\ dmTask[k].pc = "get_add"
    /\ FreeElems # {}
    /\ dmTask' = CacheFinish(k)
    /\ SetDm(AddToCache(dataManager, dmTask[k].key, Min(FreeElems)))
    /\ UNCHANGED <<lavalinkVars, dbVars, lockVars>>

\* Set: FindOneAndUpdate succeeds, or the write is queued and Set returns
SetUpdate(k, c, ok) ==
    /\ dmTask[k].pc = "idle"
    /\ dmTask' = IF ok THEN [dmTask EXCEPT ![k] = [pc |-> "set_cache", key |-> c, elem |-> 0]]
                 ELSE dmTask
    /\ SetDm(dataManager)
    /\ UNCHANGED <<lavalinkVars, dbVars, lockVars>>

\* Set: "Update cache" under the write lock
SetCache(k) ==
    /\ dmTask[k].pc = "set_cache"
    /\ LET c == dmTask[k].key
       IN  IF dataManager.cache[c] # 0
           THEN /\ dmTask' = CacheFinish(k)
                /\ SetDm([dataManager EXCEPT !.cacheList = MoveToFront(@, dataManager.cache[c])])
           ELSE /\ FreeElems # {}
                /\ dmTask' = CacheFinish(k)
                /\ SetDm(AddToCache(dataManager, c, Min(FreeElems)))
    /\ UNCHANGED <<lavalinkVars, dbVars, lockVars>>

\* Delete: "Remove from cache first" under the write lock
CacheDelete(k, c) ==
    /\ dmTask[k].pc = "idle"
    /\ dmTask' = dmTask
    /\ SetDm(IF dataManager.cache[c] # 0
             THEN [dataManager EXCEPT !.cacheList = Remove(@, dataManager.cache[c]), !.cache[c] = 0]
             ELSE dataManager)
    /\ UNCHANGED <<lavalinkVars, dbVars, lockVars>>

\* ClearCache: a new map and a new list
ClearCache(k) ==
    /\ dmTask[k].pc = "idle"
    /\ dmTask' = dmTask
    /\ SetDm([dataManager EXCEPT !.cache = [c \in CacheKeys |-> 0], !.cacheList = <<>>])
    /\ UNCHANGED <<lavalinkVars, dbVars, lockVars>>

\* Cache: two goroutines call Get, Set, Delete and ClearCache concurrently
NextCache ==
    \/ \E k \in CacheTasks, c \in CacheKeys : GetCheck(k, c)
    \/ \E k \in CacheTasks : GetHit(k)
    \/ \E k \in CacheTasks, found \in BOOLEAN : GetFindOne(k, found)
    \/ \E k \in CacheTasks : GetAdd(k)
    \/ \E k \in CacheTasks, c \in CacheKeys, ok \in BOOLEAN : SetUpdate(k, c, ok)
    \/ \E k \in CacheTasks : SetCache(k)
    \/ \E k \in CacheTasks, c \in CacheKeys : CacheDelete(k, c)
    \/ \E k \in CacheTasks : ClearCache(k)

SpecCache == Init /\ [][NextCache]_vars

\* ---- skip and the TrackEndEvent of the replaced track ----
\* the Skip of the caller has returned nil: its request, which replaces the
\* track the node was playing, was accepted
SkipReplaced(g) ==
    /\ task[1].op = "skip" /\ task[1].pc = "done" /\ task[1].ret = "nil"
    /\ task[1].g = g /\ task[1].track # NoTrack

\* a caller plays and skips, one command at a time, and the node reports the
\* end of each track that a skip replaced while the caller has not moved on
NextSkip ==
    \/ Quiet /\ NodeReady /\ \E g \in Guilds, t \in Tracks \ TracksInUse : BeginPlay(1, g, t)
    \/ Quiet /\ NodeReady /\ \E g \in Guilds : BeginSkip(1, g)
    \/ \E r \in Readers, g \in Guilds : SkipReplaced(g) /\ BeginTrackEnd(r, g)
    \/ PlayJoin(1, TRUE)
    \/ PlayLock(1)
    \/ SkipLock(1)
    \/ StopGet(1)
    \/ StopLock(1)
    \/ StopTicker(1)
    \/ \E r \in Readers : TrackEndGet(r)
    \/ \E r \in Readers : TrackEndLock(r)
    \/ \E k \in Handlers : RestPick(k)
    \/ \E k \in Handlers : UpdatePlayerHttp(k, TRUE)
    \/ \E k \in TaskIds : Return(k)
    \/ CmdConnect(2)
    \/ \E r \in Readers : ReadReady(r, "s1")
    \/ \E n \in NodeIds : ConnectEnter(n)
    \/ \E n \in NodeIds : DialSuccess(n)

SpecSkip == Init /\ [][NextSkip]_vars

\* ---- properties ----
\* C1: in every reachable state, whatever the interleaving of the commands and
\* the node events, every player of the registry that is not playing has no
\* current track.
C1_NotPlayingHasNoTrack ==
    \A g \in Guilds :
        players[g] # 0 =>
            (~heap[players[g]].IsPlaying => heap[players[g]].CurrentTrack = NoTrack)

\* the read loop has ended a track on an empty queue while a Skip of the caller
\* is between its own check of the queue and the Stop it calls
C1_Witness ==
    \E r \in Readers, g \in Guilds :
        /\ task[r].op = "TrackEndEvent" /\ task[r].pc = "done" /\ task[r].g = g
        /\ task[1].op = "skip" /\ task[1].pc = "stop_get"
        /\ players[g] # 0
        /\ ~heap[players[g]].IsPlaying

\* C2: the stored volume of every player is within [0,1000]; a player is created
\* with volume 100; SetVolume(g, v) stores and sends v limited to [0,1000]
\* (5000 gives 1000, -10 gives 0).
C2_VolumeClamped ==
    /\ [](\A o \in ObjIds : heap[o].Volume >= 0 /\ heap[o].Volume <= 1000)
    /\ [](\A k \in Callers :
            (task[k].op = "setvolume" /\ task[k].pc \in {"rest", "rest_http", "done"}) =>
                LET v == task[k].arg
                    want == IF v < 0 THEN 0 ELSE IF v > 1000 THEN 1000 ELSE v
                IN  /\ players[task[k].g] # 0
                    /\ heap[players[task[k].g]].Volume = want
                    /\ task[k].patch = VolumePatch(want)
                    /\ \A j \in 1..Len(task[k].calls) :
                          /\ task[k].calls[j].method = "PATCH"
                          /\ task[k].calls[j].patch = VolumePatch(want))
    /\ [][\A g \in Guilds :
            (players[g] = 0 /\ players'[g] # 0) => heap'[players'[g]].Volume = 100]_vars

\* SetVolume(g, 5000) has returned: 1000 is stored and was sent
C2_Witness ==
    \E g \in Guilds :
        /\ task[1].op = "setvolume" /\ task[1].pc = "done" /\ task[1].g = g
        /\ task[1].arg = 5000
        /\ heap[players[g]].Volume = 1000
        /\ Len(task[1].calls) = 1
        /\ task[1].calls[1].patch.volume = 1000

\* C3: the queue is first in, first out: a step changes the queue of a player
\* only by appending one track at its end, by removing its head, which becomes
\* the current track, or by clearing it (Stop, or the player is dropped); so
\* after play A on an idle player and play B, play C while it plays, the track
\* ends make the current track A, B, C in that order.
C3_QueueFifo ==
    [][\A o \in ObjIds :
         LET q == heap[o].Queue
             q2 == heap'[o].Queue
         IN  \/ q2 = q
             \/ \E t \in Tracks : q2 = Append(q, t) /\ heap[o].IsPlaying
             \/ q # <<>> /\ q2 = Tail(q) /\ heap'[o].CurrentTrack = Head(q)
             \/ q2 = <<>> /\ heap'[o].CurrentTrack = NoTrack /\ ~heap'[o].IsPlaying]_vars

\* A was played, B and C were queued in that order, and the end of A has made B
\* the current track and left C in the queue
C3_Witness ==
    \E r \in Readers, g \in Guilds :
        /\ task[r].op = "TrackEndEvent" /\ task[r].pc = "done" /\ task[r].g = g
        /\ task[r].track = "B"
        /\ players[g] # 0
        /\ heap[players[g]].CurrentTrack = "B"
        /\ heap[players[g]].Queue = <<"C">>

\* C4: Skip on an empty queue is Stop: when either has returned, the player is
\* idle (not playing, no current track, empty queue), every request it sent is
\* an updatePlayer with a null track, and it returned nil exactly when its last
\* request succeeded, an error otherwise.
C4_SkipEmptyIsStop ==
    \A k \in Callers :
        (/\ task[k].pc = "done"
         /\ \/ task[k].op = "stop"
            \/ task[k].op = "skip" /\ task[k].track = NoTrack) =>
            LET g == task[k].g
                n == Len(task[k].calls)
            IN  /\ players[g] # 0
                /\ ~heap[players[g]].IsPlaying
                /\ heap[players[g]].CurrentTrack = NoTrack
                /\ heap[players[g]].Queue = <<>>
                /\ \A j \in 1..n :
                      /\ task[k].calls[j].method = "PATCH"
                      /\ task[k].calls[j].g = g
                      /\ task[k].calls[j].patch = TrackPatch(NoTrack)
                /\ task[k].ret = IF n > 0 /\ task[k].calls[n].ok THEN "nil" ELSE "err"

\* Skip found the queue empty and has returned nil after one null-track request
C4_Witness ==
    /\ task[1].op = "skip" /\ task[1].pc = "done" /\ task[1].track = NoTrack
    /\ Len(task[1].calls) = 1
    /\ task[1].calls[1].ok
    /\ task[1].ret = "nil"

\* C5 as stated: when a TrackEndEvent is processed for a guild with a queue, the
\* head becomes the current track, the rest stays queued, the player keeps
\* playing, and exactly one updatePlayer call with the new head is issued to a
\* connected node (here: on a node that has had its ready frame).
C5_ExactlyOneCall ==
    \A r \in Readers :
        (/\ task[r].op = "TrackEndEvent" /\ task[r].pc = "done"
         /\ task[r].track # NoTrack
         /\ readySeen[NodeOf(r)]) =>
            /\ Len(task[r].calls) = 1
            /\ task[r].calls[1].patch = TrackPatch(task[r].track)

\* C5 amended: when a TrackEndEvent is processed for a guild with a queue, the
\* head becomes the current track, the rest stays queued in order and the player
\* keeps playing; the nodes are then tried in their configured order: a node
\* that is not connected or has no session id is passed over without a request,
\* any other node gets one updatePlayer call with the new head, and the first
\* call that succeeds is the last.  No call at all is issued when no node is
\* connected with a session id.
C5_TrackEndAdvances ==
    /\ [][\A r \in Readers :
            (task[r].pc = "te_lock" /\ task'[r].pc # "te_lock"
                /\ heap[task[r].obj].Queue # <<>>) =>
                LET p == heap[task[r].obj]
                    p2 == heap'[task[r].obj]
                IN  /\ p2.CurrentTrack = Head(p.Queue)
                    /\ p2.Queue = Tail(p.Queue)
                    /\ p.IsPlaying /\ p2.IsPlaying
                    /\ task'[r].pc = "rest" /\ task'[r].i = 1
                    /\ task'[r].patch = TrackPatch(Head(p.Queue))]_vars
    /\ [][\A r \in Readers :
            (task[r].op = "TrackEndEvent" /\ task[r].pc = "rest"
                /\ task[r].i <= Len(nodes)) =>
                LET n == nodes[task[r].i]
                IN  IF node[n].connected /\ node[n].sessionId # ""
                    THEN task'[r].pc \in {"rest", "rest_http"}
                    ELSE task'[r].calls = task[r].calls /\ task'[r].pc = "rest"]_vars
    /\ [](\A r \in Readers :
            task[r].op = "TrackEndEvent" =>
                LET cs == task[r].calls
                IN  /\ Len(cs) <= Len(nodes)
                    /\ \A j \in 1..Len(cs) :
                          /\ cs[j].method = "PATCH"
                          /\ cs[j].g = task[r].g
                          /\ cs[j].patch = TrackPatch(task[r].track)
                          /\ cs[j].sid # ""
                          /\ cs[j].ok => j = Len(cs)
                    /\ \A j1, j2 \in 1..Len(cs) : j1 < j2 => cs[j1].node # cs[j2].node)

\* a track end with a queue has been handled: the head B is the current track
\* and one successful request carried it
C5_Witness ==
    \E r \in Readers, g \in Guilds :
        /\ task[r].op = "TrackEndEvent" /\ task[r].pc = "done" /\ task[r].g = g
        /\ task[r].track = "B"
        /\ Len(task[r].calls) = 1
        /\ task[r].calls[1].ok
        /\ task[r].calls[1].patch = TrackPatch("B")
        /\ heap[players[g]].CurrentTrack = "B"
        /\ heap[players[g]].IsPlaying

\* C6 as stated: at most one progress task per guild is active: a task that was
\* cancelled publishes no further progress event once a new task has been
\* started for its guild, so two tasks of a guild never both publish.
C6_CancelledNeverPublishes ==
    \A i \in TickerIds :
        (ticker[i].pc = "publish" /\ ticker[i].stopped) =>
            progressTickers[ticker[i].g] = 0

\* C7: updatePlayer and destroyPlayer send no request on a node that is not
\* connected or has no session id, and the command that found no other node
\* returns an error; a request is sent only after a ready frame carrying a
\* session id was processed for that node.
C7_RestNeedsSession ==
    /\ [](\A k \in TaskIds :
            /\ task[k].pc \in {"rest_http", "destroy_http"} =>
                  task[k].sid # "" /\ readySeen[nodes[task[k].i]]
            /\ \A j \in 1..Len(task[k].calls) :
                  task[k].calls[j].method \in {"PATCH", "DELETE"} =>
                      task[k].calls[j].sid # "" /\ readySeen[task[k].calls[j].node]
            /\ (task[k].op = "pause" /\ task[k].pc = "done" /\ task[k].calls = <<>>) =>
                  task[k].ret = "err")
    /\ [][\A k \in TaskIds :
            (task[k].pc \in {"rest", "destroy_pick"} /\ task[k].i <= Len(nodes)) =>
                LET n == nodes[task[k].i]
                IN  (~node[n].connected \/ node[n].sessionId = "") =>
                        /\ task'[k].pc \notin {"rest_http", "destroy_http"}
                        /\ task'[k].calls = task[k].calls]_vars

\* Pause has returned an error without a request while the node was connected
\* and had no session id yet
C7_Witness ==
    /\ task[1].op = "pause" /\ task[1].pc = "done"
    /\ task[1].calls = <<>>
    /\ task[1].ret = "err"
    /\ node[1].connected
    /\ node[1].sessionId = ""

\* C8 as stated: as long as no node has received a ready frame, Search issues no
\* load-tracks request and returns an error, also when a node is connected.
C8_SearchNeedsReady ==
    \A k \in Callers :
        (task[k].op = "search" /\ \A n \in NodeIds : ~readySeen[n]) =>
            /\ task[k].pc # "search_http"
            /\ task[k].calls = <<>>
            /\ task[k].pc = "done" => task[k].ret = "err"

\* C9 as stated: after a connection drop no updatePlayer or destroyPlayer call
\* passes its precondition until a ready frame was received on the new
\* connection.
C9_SessionInvalidated ==
    \A k \in TaskIds :
        task[k].pc \in {"rest_http", "destroy_http"} => task[k].fresh

\* C10: when a read fails, the node is marked not connected and its handle is
\* closed without a connect() being started yet; after the delay exactly one
\* connect() is started and the read loop is over: it never reads again.
C10_ReadErrorReconnectsOnce ==
    [][\A r \in Readers :
         LET n == NodeOf(r)
         IN  /\ (task[r].pc = "reading" /\ task'[r].pc = "disc_sleep") =>
                    /\ ~node'[n].connected
                    /\ task[r].h \notin open'[n]
                    /\ node[n].conn \notin open'[n]
                    /\ pendingConnect' = pendingConnect
             /\ (task[r].pc = "disc_sleep" /\ task'[r].pc # "disc_sleep") =>
                    /\ task'[r].pc = "off"
                    /\ pendingConnect'[n] = pendingConnect[n] + 1
                    /\ dialing' = dialing]_vars

\* a read error was handled: the node is not connected, no handle is open, the
\* read loop is over and one connect() is about to run
C10_Witness ==
    /\ \A r \in Readers : task[r].pc = "off"
    /\ node[1].conn # 0
    /\ ~node[1].connected
    /\ open[1] = {}
    /\ pendingConnect[1] = 1
    /\ task[2].pc = "idle"

\* C11 as stated: when the voice-session event of a guild arrived before the
\* voice-server event, the handling of the voice-server event issues exactly one
\* updatePlayer call with the voice patch made of both (here: on a node that has
\* had its ready frame).
C11_ExactlyOneVoiceCall ==
    \A k \in Callers :
        (/\ task[k].op = "voiceServerUpdate" /\ task[k].pc = "done"
         /\ task[k].patch.voice # NoVoice
         /\ readySeen[nodes[1]]) =>
            /\ Len(task[k].calls) = 1
            /\ task[k].calls[1].patch = task[k].patch

\* C11 amended: a voice-session event issues no request (it is recorded in the
\* state cache only) and only the handling of a voice-server event carries a
\* voice patch; when the voice-server event arrives and the bot's voice state is
\* cached, the patch is {session id of the cached voice state, token and endpoint
\* of the event} and the nodes are tried in their configured order: a node that
\* is not connected or has no session id is passed over without a request, any
\* other node gets one updatePlayer call with the patch, and the first call that
\* succeeds is the last.
C11_VoiceServerForwards ==
    /\ [](\A k \in TaskIds :
            /\ task[k].op = "voiceStateUpdate" =>
                  task[k].pc = "done" /\ task[k].calls = <<>>
            /\ task[k].op # "voiceServerUpdate" =>
                  /\ task[k].patch.voice = NoVoice
                  /\ \A j \in 1..Len(task[k].calls) : task[k].calls[j].patch.voice = NoVoice)
    /\ [][\A k \in Callers, g \in Guilds :
            (task[k].pc = "idle" /\ task'[k].op = "voiceServerUpdate" /\ task'[k].g = g
                /\ voiceStates[g] # "") =>
                /\ task'[k].pc = "rest" /\ task'[k].i = 1 /\ task'[k].calls = <<>>
                /\ task'[k].patch.voice =
                      [sessionId |-> voiceStates[g], token |-> task'[k].tok,
                       endpoint |-> task'[k].ep]
                /\ task'[k].patch.track = "absent"
                /\ voiceServer'[g].token = task'[k].tok]_vars
    /\ [][\A k \in Callers :
            (task[k].op = "voiceServerUpdate" /\ task[k].pc = "rest"
                /\ task[k].i <= Len(nodes)) =>
                LET n == nodes[task[k].i]
                IN  IF node[n].connected /\ node[n].sessionId # ""
                    THEN task'[k].pc \in {"rest", "rest_http"}
                    ELSE task'[k].calls = task[k].calls /\ task'[k].pc = "rest"]_vars
    /\ [](\A k \in Callers :
            task[k].op = "voiceServerUpdate" =>
                LET cs == task[k].calls
                IN  /\ Len(cs) <= Len(nodes)
                    /\ \A j \in 1..Len(cs) :
                          /\ cs[j].method = "PATCH"
                          /\ cs[j].g = task[k].g
                          /\ cs[j].patch = task[k].patch
                          /\ cs[j].patch.voice # NoVoice
                          /\ cs[j].sid # ""
                          /\ cs[j].ok => j = Len(cs)
                    /\ \A j1, j2 \in 1..Len(cs) : j1 < j2 => cs[j1].node # cs[j2].node)

\* the bot's voice state v2 was cached when the voice-server event (t2, e1)
\* arrived, and one successful request carried all three
C11_Witness ==
    /\ task[3].op = "voiceServerUpdate" /\ task[3].pc = "done"
    /\ Len(task[3].calls) = 1
    /\ task[3].calls[1].ok
    /\ task[3].calls[1].patch.voice = [sessionId |-> "v2", token |-> "t2", endpoint |-> "e1"]

\* C12 as stated: when the voice-server event of a guild arrived first and no
\* voice patch was sent for the guild, the handling of the bot's later
\* voice-session event issues the updatePlayer call with the voice patch (the
\* node being connected with a session id).
C12_ServerFirstIssuesPatch ==
    \A k \in Callers, g \in Guilds :
        (/\ task[k].op = "voiceStateUpdate" /\ task[k].pc = "done" /\ task[k].g = g
         /\ task[k].uid = BotUser /\ task[k].flag
         /\ voiceServer[g] # NoVoice
         /\ voiceSent[g] = {}
         /\ RestReady(nodes[1])) =>
            task[k].calls # <<>>

\* C13: at most one dial per node is in flight at any time, and it is in flight
\* exactly while the in-flight flag is set; a connect() that finds the node
\* connected or the flag set returns without dialing, whichever of Connect(),
\* the retries and the reconnections of the read loops started it.
C13_OneDialInFlight ==
    /\ [](\A n \in NodeIds :
            /\ dialing[n] <= 1
            /\ node[n].reconnecting <=> dialing[n] = 1)
    /\ [][\A n \in NodeIds :
            (pendingConnect'[n] = pendingConnect[n] - 1
                /\ (node[n].connected \/ node[n].reconnecting)) =>
                dialing' = dialing /\ node' = node]_vars

\* Connect() was called again and its connect() is about to run while the dial
\* of an earlier connect() is in flight
C13_Witness ==
    /\ dialing[1] = 1
    /\ node[1].reconnecting
    /\ pendingConnect[1] = 1
    /\ task[2].op = "connect" /\ task[2].pc = "done"

\* C14 as stated: once Connect() was called, a node that is not connected has a
\* dial in flight or a connect attempt pending (a started connect() or the
\* sleep before one).
C14_AlwaysRetrying ==
    \A n \in NodeIds :
        (~node[n].connected /\ Chains(n) > 0) =>
            \/ dialing[n] > 0
            \/ pendingConnect[n] > 0
            \/ \E r \in ReadersOf(n) : task[r].pc = "disc_sleep"

\* C14 amended: once Connect() was called the connection tasks of a node never
\* die out, and a node that is not connected has a dial in flight, a connect
\* attempt pending, or a read loop that still runs on the closed handle and
\* starts one when its read fails; under fair scheduling, if a dial that is
\* attempted again and again eventually succeeds, the node becomes connected.
C14_NeverGivesUp ==
    /\ [](\A n \in NodeIds :
            (~node[n].connected /\ Chains(n) > 0) =>
                dialing[n] > 0 \/ pendingConnect[n] > 0 \/ ReaderWillReconnect(n))
    /\ [][\A n \in NodeIds : Chains(n) > 0 => Chains(n)' > 0]_vars
    /\ \A n \in NodeIds : (Chains(n) > 0) ~> node[n].connected

\* after a connection was lost, the dial of a reconnection is in flight
C14_Witness ==
    /\ node[1].conn # 0
    /\ ~node[1].connected
    /\ dialing[1] = 1
    /\ \A r \in Readers : task[r].pc = "off"

\* C15: GetPlayer is atomic per guild: every handler that holds a Player of a
\* guild holds the one Player the registry has for it, also when the handlers
\* ran GetPlayer concurrently; the registry entry of a guild is never replaced by
\* another Player and no two Players exist for one guild; a Player that is
\* created is idle, with volume 100, an empty queue, no current track and not
\* paused.
C15_GetPlayerAtomic ==
    /\ [](\A k \in TaskIds :
            task[k].obj # 0 =>
                /\ task[k].obj = players[task[k].g]
                /\ heap[task[k].obj].GuildID = task[k].g)
    /\ [](\A o1, o2 \in ObjIds :
            (heap[o1].GuildID # NoGuild /\ heap[o1].GuildID = heap[o2].GuildID) => o1 = o2)
    /\ [][\A g \in Guilds :
            /\ players[g] # 0 => players'[g] = players[g]
            /\ (players[g] = 0 /\ players'[g] # 0) =>
                  LET p == heap'[players'[g]]
                  IN  /\ p.GuildID = g
                      /\ ~p.IsPlaying /\ ~p.IsPaused
                      /\ p.Volume = 100
                      /\ p.Queue = <<>>
                      /\ p.CurrentTrack = NoTrack]_vars

\* two handlers are past the GetPlayer of their Play calls at the same time and
\* hold the same Player
C15_Witness ==
    /\ task[1].pc = "play_join" /\ task[3].pc = "play_join"
    /\ task[1].g = task[3].g
    /\ task[1].obj # 0
    /\ task[1].obj = task[3].obj

\* C16 as stated: a Play that found the player not playing after a successful
\* voice join issues one updatePlayer call with its track.
C16_PlayIssuesOneCall ==
    \A k \in Callers :
        (task[k].op = "play" /\ task[k].pc = "done" /\ task[k].patch # NoPatch) =>
            /\ Len(task[k].calls) = 1
            /\ task[k].calls[1].patch = TrackPatch(task[k].track)

\* C16 amended: after a successful voice join, Play(g, t) on a playing player
\* appends t to the queue, leaves the current track alone, issues no request and
\* returns nil; on a player that is not playing it makes t the current track,
\* marks the player as playing, leaves the queue alone and tries the nodes in
\* their configured order: a node that is not connected or has no session id is
\* passed over without a request, any other node gets one updatePlayer call
\* with t, and the first call that succeeds is the last (no call when no node is
\* connected with a session id).  Of two concurrent Play calls on an idle player
\* exactly one makes its track the current track and the other one is queued.
C16_PlayAppendsOrStarts ==
    /\ [][\A k \in Callers :
            (task[k].pc = "play_lock" /\ task'[k].pc # "play_lock") =>
                LET p == heap[task[k].obj]
                    p2 == heap'[players[task[k].g]]
                    t == task[k].track
                IN  /\ task[k].obj = players[task[k].g]
                    /\ IF p.IsPlaying
                       THEN /\ p2.Queue = Append(p.Queue, t)
                            /\ p2.CurrentTrack = p.CurrentTrack
                            /\ p2.IsPlaying
                            /\ task'[k].pc = "done" /\ task'[k].ret = "nil"
                            /\ task'[k].calls = <<>> /\ task'[k].patch = NoPatch
                       ELSE /\ p2.CurrentTrack = t
                            /\ p2.IsPlaying
                            /\ p2.Queue = p.Queue
                            /\ task'[k].pc = "rest" /\ task'[k].i = 1
                            /\ task'[k].patch = TrackPatch(t)]_vars
    /\ [][\A k \in Callers :
            (task[k].op = "play" /\ task[k].pc = "rest" /\ task[k].i <= Len(nodes)) =>
                LET n == nodes[task[k].i]
                IN  IF node[n].connected /\ node[n].sessionId # ""
                    THEN task'[k].pc \in {"rest", "rest_http"}
                    ELSE task'[k].calls = task[k].calls /\ task'[k].pc = "rest"]_vars
    /\ [](\A k \in Callers :
            task[k].op = "play" =>
                LET cs == task[k].calls
                IN  /\ Len(cs) <= Len(nodes)
                    /\ \A j \in 1..Len(cs) :
                          /\ cs[j].method = "PATCH"
                          /\ cs[j].g = task[k].g
                          /\ cs[j].patch = TrackPatch(task[k].track)
                          /\ cs[j].ok => j = Len(cs)
                    /\ \A j1, j2 \in 1..Len(cs) : j1 < j2 => cs[j1].node # cs[j2].node)
    /\ [](\A k1, k2 \in Callers :
            (/\ k1 # k2
             /\ task[k1].op = "play" /\ task[k2].op = "play"
             /\ task[k1].g = task[k2].g
             /\ task[k1].pc \in {"rest", "rest_http", "done"}
             /\ task[k2].pc \in {"rest", "rest_http", "done"}
             /\ task[k1].ret # "err" /\ task[k2].ret # "err"
             /\ task[k1].patch # NoPatch) =>
                LET p == heap[players[task[k1].g]]
                IN  /\ task[k2].patch = NoPatch
                    /\ p.CurrentTrack = task[k1].track
                    /\ p.IsPlaying
                    /\ \E j \in 1..Len(p.Queue) : p.Queue[j] = task[k2].track)

\* two Play calls ran concurrently on an idle player: A became the current
\* track with one successful request, B was queued without a request
C16_Witness ==
    /\ task[1].op = "play" /\ task[1].pc = "done" /\ task[1].track = "A"
    /\ task[3].op = "play" /\ task[3].pc = "done" /\ task[3].track = "B"
    /\ task[3].ret = "nil"
    /\ Len(task[1].calls) = 1
    /\ task[1].calls[1].ok
    /\ task[1].calls[1].patch = TrackPatch("A")
    /\ task[3].calls = <<>>
    /\ heap[players["g1"]].CurrentTrack = "A"
    /\ heap[players["g1"]].Queue = <<"B">>

\* C17 as stated: a Play, Pause, Stop, Skip or SetVolume whose updatePlayer
\* request succeeded on no node (every request failed, or no node was connected
\* with a session id) returns an error.
C17_RestFailureSurfaced ==
    \A k \in Callers :
        (/\ task[k].op \in {"play", "pause", "stop", "skip", "setvolume"}
         /\ task[k].pc = "done"
         /\ task[k].patch # NoPatch
         /\ \A j \in 1..Len(task[k].calls) : ~task[k].calls[j].ok) =>
            task[k].ret = "err"

\* C18: a Play that found the player not playing and whose request succeeded on
\* no node leaves the player playing with its track as the current track; a
\* Play on a player that is marked as playing, whether or not the node ever
\* started a track, only appends its track to the queue and sends nothing.
C18_PlayNotRolledBack ==
    /\ [](\A k \in Callers :
            (/\ task[k].op = "play" /\ task[k].pc = "done"
             /\ task[k].patch # NoPatch
             /\ \A j \in 1..Len(task[k].calls) : ~task[k].calls[j].ok) =>
                /\ players[task[k].g] # 0
                /\ heap[players[task[k].g]].IsPlaying
                /\ heap[players[task[k].g]].CurrentTrack = task[k].track)
    /\ [][\A k \in Callers :
            (task[k].pc = "play_lock" /\ task'[k].pc # "play_lock"
                /\ heap[task[k].obj].IsPlaying) =>
                /\ heap'[task[k].obj] =
                      [heap[task[k].obj] EXCEPT !.Queue = Append(@, task[k].track)]
                /\ task'[k].pc = "done"
                /\ task'[k].calls = <<>>]_vars

\* the request of Play A failed and the player is marked as playing A; the later
\* Play B has only queued B
C18_Witness ==
    /\ task[1].op = "play" /\ task[1].pc = "done" /\ task[1].track = "B"
    /\ task[1].calls = <<>> /\ task[1].patch = NoPatch
    /\ ~readySeen[1]
    /\ heap[players["g1"]].IsPlaying
    /\ heap[players["g1"]].CurrentTrack = "A"
    /\ heap[players["g1"]].Queue = <<"B">>

C20_StopPostcondition ==
    /\ [](\A k \in Callers :
            (task[k].op = "stop" /\ task[k].pc = "done") =>
                LET g == task[k].g
                    n == Len(task[k].calls)
                IN  /\ players[g] # 0
                    /\ heap[players[g]].Queue = <<>>
                    /\ heap[players[g]].CurrentTrack = NoTrack
                    /\ ~heap[players[g]].IsPlaying
                    /\ progressTickers[g] = 0
                    /\ task[k].patch = TrackPatch(NoTrack)
                    /\ \A j \in 1..n : task[k].calls[j].patch = TrackPatch(NoTrack)
                    /\ task[k].ret = "nil" <=> (n > 0 /\ task[k].calls[n].ok))
    /\ [][\A k \in Callers :
            (task[k].op = "stop" /\ task'[k].op = "stop") =>
                LET o == players[task[k].g]
                IN  /\ players'[task[k].g] = o
                    /\ heap'[o].Volume = heap[o].Volume
                    /\ heap'[o].IsPaused = heap[o].IsPaused]_vars
    /\ [][\A k \in Callers :
            (task[k].op = "stop" /\ task[k].pc = "rest" /\ task[k].i <= Len(nodes)
                /\ task'[k] # task[k]) =>
                LET n == nodes[task[k].i]
                IN  IF node[n].connected /\ node[n].sessionId # ""
                    THEN task'[k].pc = "rest_http" /\ task'[k].patch = TrackPatch(NoTrack)
                    ELSE task'[k].pc = "rest" /\ task'[k].calls = task[k].calls]_vars

\* Stop has returned an error after its null-track request failed: the player,
\* for which a request was accepted before, is idle and has no ticker
C20_Witness ==
    /\ task[1].op = "stop" /\ task[1].pc = "done" /\ task[1].ret = "err"
    /\ Len(task[1].calls) = 1
    /\ ~task[1].calls[1].ok
    /\ task[1].calls[1].patch = TrackPatch(NoTrack)
    /\ heap[players["g1"]].Queue = <<>>
    /\ ~heap[players["g1"]].IsPlaying
    /\ progressTickers["g1"] = 0
    /\ playerNode["g1"] = 1
    /\ Len(task[1].calls) = 1 => task[1].calls[1].node = 1

\* C21: when DestroyPlayer(g) has finished, the registry has no player for g
\* and no progress ticker is registered for g, whether or not a node was
\* connected and whatever the outcome of the DELETE; at most one DELETE was
\* sent, and nothing is returned to the caller
C21_DestroyAlwaysRemoves ==
    \A k \in Callers :
        (task[k].op = "destroy" /\ task[k].pc = "done") =>
            /\ players[task[k].g] = 0
            /\ progressTickers[task[k].g] = 0
            /\ task[k].ret = "nil"
            /\ Len(task[k].calls) <= 1
            /\ \A c \in 1..Len(task[k].calls) : task[k].calls[c].method = "DELETE"

\* a destroy whose DELETE failed
C21_Witness ==
    /\ task[1].op = "destroy" /\ task[1].pc = "done"
    /\ Len(task[1].calls) = 1 /\ ~task[1].calls[1].ok
    /\ players["g1"] = 0

\* C22: a registry entry for a guild is created only by a step of a Play
\* call: whenever a guild that has no player gets one, a caller has just
\* started Play for it
C22_OnlyPlayCreates ==
    [][\A g \in Guilds :
          (players[g] = 0 /\ players'[g] # 0) =>
              \E k \in Callers : /\ task[k].pc = "idle"
                                 /\ task'[k].op = "play"
                                 /\ task'[k].g = g]_vars

\* C23: every player of the registry that is paused is playing
C23_PausedImpliesPlaying ==
    \A g \in Guilds :
        players[g] # 0 => (heap[players[g]].IsPaused => heap[players[g]].IsPlaying)

\* C24: of all the RedeemPremiumCode and RedeemPremiumCodeForGuild calls on
\* one code, at most one returns without error
C24_RedeemedOnce ==
    \A c \in CodeIds : Cardinality({i \in 1..Len(grants) : grants[i].code = c}) <= 1

\* C25: when a Database.Connect call has failed, the reconnection ticker and
\* its goroutine have been started
C25_ReconnectStarted ==
    \A k \in DbTaskIds :
        (dbtask[k].op = "connect" /\ dbtask[k].ret = "err") => database.reconnectTicker

\* C26: every operation ever added to the write queue has been applied to
\* the database, is in the write queue, or is held by a running
\* syncOfflineWrites (in its copy of the queue or in failedOps); so when no
\* sync is running every queued operation is either applied or still queued
C26_NoWriteLost ==
    \A id \in 1..(database.nextOp - 1) :
        \/ id \in mongo.applied
        \/ \E i \in 1..Len(database.writeQueue) : database.writeQueue[i].id = id
        \/ \E s \in SyncTasks :
              /\ dbtask[s].pc \in {"sync_op", "sync_end"}
              /\ \/ \E i \in 1..Len(dbtask[s].operations) : dbtask[s].operations[i].id = id
                 \/ \E i \in 1..Len(dbtask[s].failedOps) : dbtask[s].failedOps[i].id = id

\* a sync has finished that applied operation 2 and put operation 1, whose
\* write failed, back into the queue
C26_Witness ==
    /\ \A s \in SyncTasks : dbtask[s].pc = "off"
    /\ 2 \in mongo.applied
    /\ 1 \notin mongo.applied
    /\ \E i \in 1..Len(database.writeQueue) : database.writeQueue[i].id = 1

\* C27: a step of handlePlayerUpdate leaves the registry as it is (so it
\* creates no player) and changes no field of any registered player except
\* the position of the player of its guild
C27_PlayerUpdateOnlyPosition ==
    [][\A r \in Readers :
          (/\ task'[r].op = "playerUpdate"
           /\ task[r].pc \in {"reading", "pu_lock"}
           /\ task'[r].pc # task[r].pc) =>
              /\ players' = players
              /\ \A g \in Guilds :
                    players[g] # 0 =>
                       /\ [heap'[players[g]] EXCEPT !.Position = heap[players[g]].Position]
                             = heap[players[g]]
                       /\ g # task'[r].g => heap'[players[g]] = heap[players[g]]]_vars

\* a position update has been applied to a playing player
C27_Witness ==
    \E r \in Readers :
        /\ task[r].op = "playerUpdate" /\ task[r].pc = "done"
        /\ players["g1"] # 0
        /\ heap[players["g1"]].Position = 7
        /\ heap[players["g1"]].IsPlaying
        /\ heap[players["g1"]].CurrentTrack = "A"

\* C28 as stated: the step that ends handleTrackStart leaves the player of
\* the guild playing and a progress ticker registered for the guild
C28_TrackStartMarksPlaying ==
    [][\A r \in Readers :
          (task'[r].op = "TrackStartEvent" /\ task[r].pc # "done" /\ task'[r].pc = "done") =>
              /\ players'[task'[r].g] # 0
              /\ heap'[players'[task'[r].g]].IsPlaying
              /\ progressTickers'[task'[r].g] # 0]_vars

\* C28 amended: the step that ends handleTrackStart leaves the guild with a
\* player; if that player has a current track it is playing and a running
\* progress ticker is registered for the guild; if it has none it is not
\* playing and the tickers are as they were (the handler returned before
\* startProgressUpdates)
C28_TrackStartWithTrack ==
    [][\A r \in Readers :
          (task'[r].op = "TrackStartEvent" /\ task[r].pc # "done" /\ task'[r].pc = "done") =>
              /\ players'[task'[r].g] # 0
              /\ IF heap'[players'[task'[r].g]].CurrentTrack # NoTrack
                 THEN /\ heap'[players'[task'[r].g]].IsPlaying
                      /\ progressTickers'[task'[r].g] # 0
                      /\ ticker'[progressTickers'[task'[r].g]].g = task'[r].g
                      /\ ~ticker'[progressTickers'[task'[r].g]].stopped
                 ELSE /\ ~heap'[players'[task'[r].g]].IsPlaying
                      /\ UNCHANGED <<progressTickers, ticker>>]_vars

\* a TrackStartEvent for a playing track has been processed
C28_Witness ==
    \E r \in Readers :
        /\ task[r].op = "TrackStartEvent" /\ task[r].pc = "done"
        /\ heap[players["g1"]].CurrentTrack = "A"
        /\ progressTickers["g1"] # 0

\* C29: the step of handleTrackEnd that finds the queue empty makes the
\* player idle (not playing, no current track) and ends the handler without
\* any updatePlayer call; the progress ticker of the guild was already
\* stopped and unregistered before that step
C29_EmptyQueueGoesIdle ==
    [][\A r \in Readers :
          (/\ task[r].pc = "te_lock"
           /\ task'[r].pc # "te_lock"
           /\ Len(heap[task[r].obj].Queue) = 0) =>
              /\ ~heap'[task[r].obj].IsPlaying
              /\ heap'[task[r].obj].CurrentTrack = NoTrack
              /\ heap'[task[r].obj].Queue = <<>>
              /\ task'[r].pc = "done"
              /\ task'[r].calls = <<>>
              /\ progressTickers[task[r].g] = 0
              /\ progressTickers'[task[r].g] = 0]_vars

\* a TrackEndEvent has ended a track that was sent to the node, with nothing
\* queued
C29_Witness ==
    \E r \in Readers :
        /\ task[r].op = "TrackEndEvent" /\ task[r].pc = "done"
        /\ task[r].calls = <<>>
        /\ players["g1"] # 0
        /\ ~heap[players["g1"]].IsPlaying
        /\ heap[players["g1"]].CurrentTrack = NoTrack
        /\ progressTickers["g1"] = 0
        /\ playerNode["g1"] = 1

\* C30: reading a frame that starts no handler changes nothing of the nodes,
\* the players, the tickers or any other task, and the read loop that got the
\* frame goes on reading afterwards
C30_QuietFramesChangeNothing ==
    [][\A r \in Readers :
          /\ (task[r].pc = "reading" /\ task'[r].op \in QuietFrames) =>
                /\ UNCHANGED <<nodes, nodeVars, voiceVars, playerNode, players, heap,
                               progressTickers, ticker>>
                /\ \A k \in TaskIds \ {r} : task'[k] = task[k]
                /\ task'[r].pc = "done"
                /\ task'[r].h = task[r].h
          /\ (task[r].op \in QuietFrames /\ task[r].pc = "done" /\ task'[r] # task[r]) =>
                /\ task'[r].pc = "reading"
                /\ UNCHANGED <<nodes, nodeVars, voiceVars, playerNode, players, heap,
                               progressTickers, ticker>>]_vars

\* a read loop has skipped a frame that could not be decoded, on a node that
\* is ready, while a player is playing
C30_Witness ==
    \E r \in Readers :
        /\ task[r].op = "undecodable" /\ task[r].pc = "done"
        /\ node[NodeOf(r)].connected
        /\ node[NodeOf(r)].sessionId = "s1"
        /\ players["g1"] # 0
        /\ heap[players["g1"]].IsPlaying

\* C31: no goroutine ever holds two of the registry lock, a player lock and
\* a node lock at once, and whenever some goroutine is inside an operation,
\* one of them can take its next lock or unlock step (no deadlock)
C31_LockDiscipline ==
    /\ \A k \in LockTasks : Cardinality(Held(k)) <= 1
    /\ (\E k \in LockTasks : lockTask[k].op # "none") => \E k \in LockTasks : CanLockStep(k)

\* one goroutine holds the registry lock inside GetPlayer while another
\* waits for it at the start of handleTrackEnd, holding nothing
C31_Witness ==
    /\ mutex["c.mu"].w = 1
    /\ lockTask[1].op = "Play"
    /\ lockTask[2].op = "handleTrackEnd" /\ lockTask[2].i = 1
    /\ ~CanLockStep(2)
    /\ Held(2) = {}

\* the handlers that have taken a track from the queue and have not returned
Taken == {k \in Handlers : /\ task[k].op \in {"skip", "TrackEndEvent"}
                           /\ task[k].pc \in {"rest", "rest_http", "done"}
                           /\ task[k].track # NoTrack}

\* C32: a skip and a TrackEndEvent handler that run concurrently for one guild
\* do not interleave destructively: each removes the head of the queue as it
\* is at that moment (the next track and the current track become that head,
\* the queue loses exactly that entry), no track is taken by both, and a
\* track that was taken is no longer queued
C32_PopsDoNotInterleave ==
    [][/\ \A k \in Handlers :
              (task[k].pc \in {"skip_lock", "te_lock"} /\ task'[k].pc = "rest")
                  => LET o == task[k].obj
                     IN  /\ Len(heap[o].Queue) > 0
                         /\ task'[k].track = Head(heap[o].Queue)
                         /\ heap'[o].CurrentTrack = Head(heap[o].Queue)
                         /\ heap'[o].Queue = Tail(heap[o].Queue)
       /\ \A k \in Taken', k2 \in Taken' : k # k2 => task'[k].track # task'[k2].track
       /\ \A k \in Taken', o \in ObjIds :
              \A j \in 1..Len(heap'[o].Queue) : heap'[o].Queue[j] # task'[k].track]_vars

\* with a track playing and two tracks queued, a skip and a TrackEndEvent
\* handler have both taken a track and neither has sent its request yet: the
\* two tracks differ and the queue is empty
C32_Witness ==
    \E r \in Readers :
        /\ task[1].op = "skip" /\ task[1].pc = "rest"
        /\ task[r].op = "TrackEndEvent" /\ task[r].pc = "rest"
        /\ task[1].track # NoTrack /\ task[r].track # NoTrack
        /\ task[1].track # task[r].track
        /\ players["g1"] # 0 /\ heap[players["g1"]].Queue = <<>>
        /\ heap[players["g1"]].IsPlaying

\* C33: every progress goroutine terminates: it leaves the program only by
\* returning (after a tick on which it saw isPlaying == false, having
\* published nothing on that tick), and it is never left waiting for a tick of
\* a ticker that was stopped, which would block it for good
C33_ProgressTaskReturns ==
    [][\A i \in TickerIds :
           (ticker[i].pc # "free" /\ ticker'[i].pc = "free")
               => ticker[i].pc = "stopping"]_vars

\* C34 as stated: when Disconnect() returns, every node is marked not connected.
C34_AllNodesDown ==
    [][(task[2].pc = "disc_node" /\ task'[2].pc = "done") =>
           \A j \in 1..Len(nodes) : ~node'[nodes[j]].connected]_vars

\* C34 amended: Disconnect() marks each node not connected and closes its
\* handle when it comes to it, without halting or starting a connection task,
\* and when it returns no progress ticker is registered and the tickers that
\* were registered are stopped; a read loop whose handle is closed exits and,
\* as it exits, starts one more connect() (under fair scheduling)
C34_DisconnectEffects ==
    /\ [][/\ (task[2].pc = "disc_node" /\ task'[2].i = task[2].i + 1) =>
                LET n == nodes[task[2].i]
                IN  /\ ~node'[n].connected
                    /\ node[n].conn \notin open'[n]
                    /\ pendingConnect' = pendingConnect
                    /\ dialing' = dialing
                    /\ node'[n].reconnecting = node[n].reconnecting
          /\ (task[2].pc = "disc_node" /\ task'[2].pc = "done") =>
                /\ \A g \in Guilds : progressTickers'[g] = 0
                /\ \A g \in Guilds : progressTickers[g] # 0 =>
                       LET i == progressTickers[g]
                       IN  ticker'[i].pc = "free" \/ ticker'[i].stopped
          /\ \A r \in Readers :
                (task[r].pc # "off" /\ task'[r].pc = "off") =>
                    pendingConnect'[NodeOf(r)] = pendingConnect[NodeOf(r)] + 1]_vars
    /\ \A r \in Readers :
          (task[r].pc = "reading" /\ task[r].h \notin open[NodeOf(r)])
              ~> (task[r].pc = "off")

\* Disconnect() has returned after it closed the handle of a connected node
\* whose ticker it stopped: the node is not connected, no ticker is
\* registered, and the read loop of the node still blocks on the closed handle
C34_Witness ==
    /\ task[2].op = "disconnect" /\ task[2].pc = "done"
    /\ ~node[1].connected
    /\ node[1].conn # 0 /\ node[1].conn \notin open[1]
    /\ \E r \in Readers : task[r].pc = "reading" /\ task[r].h = node[1].conn
    /\ players["g1"] # 0 /\ heap[players["g1"]].IsPlaying
    /\ progressTickers["g1"] = 0
    /\ dialing[1] = 0 /\ pendingConnect[1] = 0

\* C35 as stated: whatever calls of Get, Set, Delete and ClearCache have run
\* or are running, the cache holds at most MaxCacheSize entries, the map and
\* the LRU list hold the same entries, and the list has one element per key.
C35_CacheConsistent ==
    LET l == dataManager.cacheList
    IN  /\ Len(l) <= MaxCacheSize
        /\ Cardinality({c \in CacheKeys : dataManager.cache[c] # 0}) <= MaxCacheSize
        /\ {l[j] : j \in 1..Len(l)} = {dataManager.cache[c] : c \in CacheKeys} \ {0}
        /\ \A i \in 1..Len(l), j \in 1..Len(l) :
               i # j => dataManager.key[l[i]] # dataManager.key[l[j]]

\* C36 as stated: with A playing and B, C queued, after skip and after the
\* handling of the TrackEndEvent that the node reports for the replaced track,
\* the current track is B and the queue is [C]: the handler of that event
\* leaves the track the skip chose and the queue as they are.
C36_SkipAdvancesByOne ==
    [][\A r \in Readers :
           LET o == players["g1"]
           IN  (/\ SkipReplaced("g1") /\ task[1].track = "B"
                /\ task[r].op = "TrackEndEvent"
                /\ task[r].pc = "te_lock" /\ task'[r].pc # "te_lock"
                /\ o # 0 /\ task[r].obj = o
                /\ heap[o].CurrentTrack = "B" /\ heap[o].Queue = <<"C">>)
                   => /\ heap'[o].CurrentTrack = "B"
                      /\ heap'[o].Queue = <<"C">>]_vars

\* C37 as stated: when every request succeeds, local and remote state agree
\* once all handlers of a guild have finished: when a handler's track patch is
\* accepted while no other command or event handler is still running, that
\* patch, the last one sent, carries the local current track (NoTrack, the null
\* track, exactly if there is no current track).
C37_LastPatchIsCurrent ==
    [][\A k \in Handlers :
           (/\ task[k].pc = "rest_http" /\ task'[k].pc = "done"
            /\ task[k].patch.track # "absent"
            /\ \A k2 \in Handlers \ {k} : task[k2].pc \in {"idle", "reading", "off", "done"})
               => LET o == players'[task[k].g]
                  IN  /\ o # 0
                      /\ heap'[o].CurrentTrack = task[k].patch.track]_vars

\* C38 as stated: no command or event handler changes a Player object that has
\* been removed from the registry: an object that is not the registered Player
\* of its guild stays as it is until nothing refers to it any more.
C38_RemovedPlayerUntouched ==
    [][\A o \in ObjIds :
           (heap[o].GuildID # NoGuild /\ players[heap[o].GuildID] # o)
               => heap'[o] = heap[o] \/ heap'[o] = FreePlayer]_vars

\* C39: in every reachable state, whatever the interleaving of the commands
\* and the node events, a Player with a non-empty queue is playing.
C39_QueuedImpliesPlaying ==
    \A o \in ObjIds : Len(heap[o].Queue) > 0 => heap[o].IsPlaying

\* a track is playing and two more are queued while a TrackEndEvent handler
\* and a skip are both about to enter their critical section
C39_Witness ==
    \E r \in Readers :
        /\ task[r].pc = "te_lock" /\ task[1].pc = "skip_lock"
        /\ task[r].obj = players["g1"] /\ task[1].obj = players["g1"]
        /\ Len(heap[players["g1"]].Queue) = 2
        /\ heap[players["g1"]].IsPlaying

\* C40: when joining the voice channel fails, Play returns an error, has
\* issued no updatePlayer call, and leaves the current track, the queue and
\* the playing flag of the Player as they were: the GetPlayer at the start of
\* the call changes no existing Player (a Player it creates is idle, without
\* track and with an empty queue), and the failing join changes nothing.
C40_JoinFailureChangesNothing ==
    [][\A k \in Callers :
           /\ (task[k].pc = "idle" /\ task'[k].op = "play") =>
                  LET g == task'[k].g
                      o == task'[k].obj
                  IN  /\ players[g] # 0 => (o = players[g] /\ heap'[o] = heap[o])
                      /\ players[g] = 0 => heap'[o] = NewPlayer(g)
           /\ (task[k].pc = "play_join" /\ task'[k].pc = "done") =>
                  LET o == task[k].obj
                  IN  /\ task'[k].ret = "err"
                      /\ task'[k].calls = <<>>
                      /\ players' = players
                      /\ players[task[k].g] = o =>
                             /\ heap'[o].CurrentTrack = heap[o].CurrentTrack
                             /\ heap'[o].Queue = heap[o].Queue
                             /\ heap'[o].IsPlaying = heap[o].IsPlaying]_vars

\* a Play of track B has returned an error from the voice join while A is
\* playing: A is still the current track and nothing is queued
C40_Witness ==
    \E k \in Callers :
        /\ task[k].op = "play" /\ task[k].pc = "done" /\ task[k].ret = "err"
        /\ task[k].track = "B" /\ task[k].calls = <<>>
        /\ players["g1"] # 0
        /\ heap[players["g1"]].IsPlaying
        /\ heap[players["g1"]].CurrentTrack = "A"
        /\ heap[players["g1"]].Queue = <<>>

====
